---- MODULE Spec2Model ----
(***************************************************************************)
(* Model of sky_monitoring: the OpenSky plane tracker's geofence state     *)
(* machine and enrichment cascade (planes_opensky.py, enrichment_*.py) and *)
(* the satellite tracker's hot-reloaded allow-list (sats_skyfield.py).     *)
(*                                                                         *)
(* Conventions.  A Python str is a sequence of one-token strings; None,    *)
(* "" and {} are all the empty function << >>, which is what the code's    *)
(* truthiness tests (x or y, if x:) see.  A Python dict is a function      *)
(* whose DOMAIN is its key set; _inside, whose iteration order decides the *)
(* order of EXIT events, is a sequence of [id, ts] entries in insertion    *)
(* order.  Times are seconds, distances are metres.                        *)
(***************************************************************************)
EXTENDS Integers, Sequences, FiniteSets, TLC

VARIABLES
    \* planes_opensky.OpenSkyPlaneTracker and the enrichment modules
    now,                  \* time.time() at the start of the last step
    ticks,                \* number of run_forever iterations so far
    radius_km,            \* OpenSkyPlaneTracker.radius_km (config)
    _airlabs_enabled,
    _aviationstack_enabled,
    _inside,
    _last_seen_any,
    _last_dist_m,
    _last_position,
    _outside_polls,
    _plane_cache,
    _last_overhead_sent,
    _adsbdb_cache,
    _MEM_CACHE,           \* enrichment_aviationstack._MEM_CACHE
    disk_cache,           \* data/aviationstack_cache.json
    emitted,              \* events handed to EventWriter.emit by the last step
    calls,                \* provider requests issued by the last step
    seen,                 \* the snapshot the last tick worked on: id -> PlaneState
    answers,              \* what the providers answered during the last tick
    hist,                 \* per-id history of the observations (checking only)
    lookup,               \* the last direct provider lookup and what it returned
    asked,                \* (provider, key) -> time and answer of its last lookup
    \* sats_skyfield.SkyfieldSatelliteTracker: the hot-reloaded allow-list
    file,                 \* data/space_objects.json as the file system holds it
    _space_allow,
    _space_meta,
    _space_objects_mtime,
    pc,                   \* where _reload_space_objects_if_needed stands
    frame,                \* its arguments and locals: force, mtime, raw
    pre,                  \* the snapshot when the running call began
    ret,                  \* what the last finished call returned and emitted
    edits,                \* number of file operations of the editor so far
    \* event_writer.EventWriter shared by the two tracker threads
    _lock,                \* EventWriter._lock: "free" or the thread holding it
    _fh,                  \* EventWriter._fh is set: the JSONL file is written
    emit_pc,              \* thread -> where its call of EventWriter.emit stands
    sent,                 \* thread -> number of its emit calls so far
    console,              \* what print has written to stdout, piece by piece
    jsonl,                \* the records written to the JSONL file
    \* run_forever of the two trackers
    running,              \* thread -> its run_forever loop is still running
    loop,                 \* thread -> its last iteration: n, raised, warns
    \* OpenSkyPlaneTracker._fetch
    _backoff_until,
    _token,               \* OpenSkyOAuthToken: [set, expires_at]
    fetched,              \* what the last _fetch met and did (checking only)
    \* sats_skyfield.SkyfieldSatelliteTracker: the tracked satellites
    track_all,            \* cfg track_all
    _sats,                \* the NORAD ids of self._sats
    _overhead,            \* the ids above min_elev at the last tick
    sat,                  \* what the last tick of the tracker did (checking only)
    \* the sky around home
    airspace              \* where the aircraft really were at the last fetch

planeVars == <<now, ticks, radius_km, _airlabs_enabled, _aviationstack_enabled,
               _inside, _last_seen_any, _last_dist_m, _last_position,
               _outside_polls, _plane_cache, _last_overhead_sent, _adsbdb_cache,
               _MEM_CACHE, disk_cache, emitted, calls, seen, answers, hist>>
lookupVars == <<lookup, asked>>
reloadVars == <<file, _space_allow, _space_meta, _space_objects_mtime,
                pc, frame, pre, ret, edits>>
sinkVars == <<_lock, _fh, emit_pc, sent, console, jsonl>>
loopVars == <<running, loop>>
fetchVars == <<_backoff_until, _token, fetched>>
satVars == <<track_all, _sats, _overhead, sat>>
airVars == <<airspace>>
vars == <<planeVars, lookupVars, reloadVars, sinkVars, loopVars, fetchVars, satVars,
          airVars>>

-----------------------------------------------------------------------------
(* Program constants *)

exit_buffer_m == 750
exit_confirm_polls == 2
overhead_radius_m == 1500
overhead_cooldown_seconds == 1800
poll_seconds == 5
disappear_grace_seconds == 10
_adsbdb_cache_ttl_s == 21600
_DEFAULT_TTL_S == 43200

radius_m == radius_km * 1000
radius_exit_m == radius_m + exit_buffer_m

(* Bounds of the model *)
MaxTicks == 4
MaxReloads == 3
MaxEdits == 3
MaxLookups == 4
MaxEnters == 2
MaxEmits == 2
MaxFetches == 3
MaxSatTicks == 2

-----------------------------------------------------------------------------
(* Python values *)

NoneV == << >>
Truthy(x) == x # << >>
Or(x, y) == IF Truthy(x) THEN x ELSE y

EmptyDict == << >>
Has(d, k) == k \in DOMAIN d
Get(d, k, dflt) == IF k \in DOMAIN d THEN d[k] ELSE dflt
Put(d, k, v) == [x \in (DOMAIN d) \cup {k} |-> IF x = k THEN v ELSE d[x]]
Pop(d, k) == [x \in (DOMAIN d) \ {k} |-> d[x]]
Max(a, b) == IF a >= b THEN a ELSE b

(* _inside: an insertion-ordered dict icao24 -> timestamp *)
InsideIds == {_inside[i].id : i \in 1..Len(_inside)}
OHas(d, k) == \E i \in 1..Len(d) : d[i].id = k
OGet(d, k) == (CHOOSE i \in 1..Len(d) : d[i].id = k)
OSet(d, k, v) ==
    IF OHas(d, k)
    THEN [i \in 1..Len(d) |-> IF d[i].id = k THEN [id |-> k, ts |-> v] ELSE d[i]]
    ELSE Append(d, [id |-> k, ts |-> v])
OPop(d, k) == SelectSeq(d, LAMBDA e : e.id # k)

-----------------------------------------------------------------------------
(* Strings: str.strip, str.upper, str.replace(" ", ""), re.sub *)

LowerCase == <<"a", "b", "c", "g", "i", "l", "n", "o", "s", "u">>
UpperCase == <<"A", "B", "C", "G", "I", "L", "N", "O", "S", "U">>
UpperLetters == {UpperCase[i] : i \in 1..Len(UpperCase)}
Letters == UpperLetters \cup {LowerCase[i] : i \in 1..Len(LowerCase)}
Digits == {"1", "2"}
upper1(c) ==
    IF \E i \in 1..Len(LowerCase) : LowerCase[i] = c
    THEN UpperCase[CHOOSE i \in 1..Len(LowerCase) : LowerCase[i] = c]
    ELSE c
upper(s) == [i \in 1..Len(s) |-> upper1(s[i])]

RECURSIVE lstrip(_)
lstrip(s) == IF s # << >> /\ Head(s) = " " THEN lstrip(Tail(s)) ELSE s
RECURSIVE rstrip(_)
rstrip(s) ==
    IF s # << >> /\ s[Len(s)] = " " THEN rstrip(SubSeq(s, 1, Len(s) - 1)) ELSE s
strip(s) == rstrip(lstrip(s))
remove_spaces(s) == SelectSeq(s, LAMBDA c : c # " ")
isalpha(s) == s # << >> /\ \A i \in 1..Len(s) : s[i] \in Letters
isdigit(s) == s # << >> /\ \A i \in 1..Len(s) : s[i] \in Digits

\* planes_opensky.normalize_callsign
normalize_callsign(cs) == remove_spaces(upper(strip(cs)))
\* enrichment_adsbdb._norm_callsign
_norm_callsign(cs) == remove_spaces(upper(strip(cs)))
\* enrichment_aviationstack._normalize_callsign
_normalize_callsign(cs) == remove_spaces(upper(strip(cs)))
\* enrichment_airlabs.normalize_flight_code: keep only A-Z0-9 after upper()
normalize_flight_code(code) ==
    SelectSeq(upper(strip(code)), LAMBDA c : c \in UpperLetters \cup Digits)
\* enrichment_airlabs.build_alt_flight_variants: at most one variant
build_alt_flight_variants(flight_code) ==
    LET fc == normalize_flight_code(flight_code) IN
    IF Len(fc) < 4 THEN << >>
    ELSE IF isalpha(SubSeq(fc, 1, 3)) /\ isdigit(SubSeq(fc, 4, Len(fc)))
         THEN << SubSeq(fc, 1, 2) \o SubSeq(fc, 4, Len(fc)) >>
         ELSE << >>

NO_CALLSIGN == <<"(", "n", "o", " ", "c", "a", "l", "l", "s", "i", "g", "n", ")">>
\* _fetch line 384: (s[1] or "").strip() or "(no callsign)"
feed_callsign(raw) == Or(strip(raw), NO_CALLSIGN)

-----------------------------------------------------------------------------
(* Enrichment providers.  Each takes the kind of answer the remote service  *)
(* gives to the request(s) it issues and returns what the Python function   *)
(* returns, the requests it issued (net) and whether it raised.             *)

Tok(x) == <<x>>

\* What ADSBDB can answer to GET /v0/callsign/<cs>
AdsbdbAnswers == {"timeout", "404", "500", "non_json", "bad_shape", "no_route", "route"}

adsbdb_raw(cs, r) == [response |-> Tok(r), callsign |-> cs]
adsbdb_normalized(cs) ==
    [route |-> [from |-> Tok("SFO"), to |-> Tok("JFK")],
     airline |-> [name |-> Tok("United"), icao |-> Tok("UAL"), iata |-> Tok("UA")],
     callsign_iata |-> IF build_alt_flight_variants(cs) # << >>
                       THEN build_alt_flight_variants(cs)[1] ELSE NoneV,
     callsign_icao |-> cs,
     source |-> Tok("adsbdb")]

AdsbdbResult(norm, raw, status, net, raised) ==
    [norm |-> norm, raw |-> raw, status |-> status, net |-> net, raised |-> raised]

\* enrichment_adsbdb.enrich_callsign_adsbdb
enrich_callsign_adsbdb(callsign, r) ==
    LET cs == _norm_callsign(callsign)
        req == << [provider |-> "adsbdb", key |-> cs] >>
    IN
    IF cs = << >> \/ Head(cs) = "(" \/ cs \in {<<"N","O","C","A","L","L","S","I","G","N">>,
                                             <<"N","O","_","C","A","L","L","S","I","G","N">>}
    THEN AdsbdbResult(NoneV, NoneV, <<"adsbdb", "skip", "bad_callsign">>, << >>, FALSE)
    ELSE CASE r = "timeout" ->
                AdsbdbResult(NoneV, NoneV, <<"adsbdb", "error", "timeout">>, req, FALSE)
           [] r = "404" ->
                AdsbdbResult(NoneV, NoneV, <<"adsbdb", "unknown">>, req, FALSE)
           [] r = "500" ->
                AdsbdbResult(NoneV, NoneV, <<"adsbdb", "http", "500">>, req, FALSE)
           [] r = "non_json" ->
                AdsbdbResult(NoneV, NoneV, <<"adsbdb", "non_json">>, req, FALSE)
           [] r = "bad_shape" ->
                \* line 66: .get on a JSON value that is no object raises
                AdsbdbResult(NoneV, NoneV, NoneV, req, TRUE)
           [] r = "no_route" ->
                AdsbdbResult(NoneV, adsbdb_raw(cs, r), <<"adsbdb", "missing_route">>, req, FALSE)
           [] OTHER ->
                AdsbdbResult(adsbdb_normalized(cs), adsbdb_raw(cs, r), <<"adsbdb", "ok">>,
                             req, FALSE)

\* What AirLabs can answer to one GET /api/v9/flights: a transport, HTTP or
\* JSON failure, an empty "response" list, a record with both airports, a
\* record with the departure airport only.
AirlabsAnswers == {"err", "empty", "full", "origin"}

airlabs_record(k, by, code) ==
    [airline_icao |-> Tok("UAL"), airline_iata |-> Tok("UA"),
     flight_icao |-> IF by = "hex" THEN NoneV ELSE code,
     dep_iata |-> Tok("SFO"),
     arr_iata |-> IF k = "full" THEN Tok("JFK") ELSE NoneV,
     matched_by |-> Tok(by)]

\* enrichment_airlabs._airlabs_get + fetch_airlabs_record_by_hex/_by_flight:
\* every exception becomes None
fetch_airlabs_record(k, by, code) ==
    IF code = << >> THEN [rec |-> NoneV, net |-> << >>]
    ELSE [rec |-> IF k \in {"full", "origin"} THEN airlabs_record(k, by, code) ELSE NoneV,
          net |-> << [provider |-> "airlabs", key |-> <<by>> \o code] >>]

\* enrichment_airlabs.airline_code_to_company, with no airlines file
airline_code_to_company(airline_icao, airline_iata) ==
    LET code == strip(Or(airline_icao, airline_iata)) IN
    IF code = << >> THEN Tok("Unknown") ELSE code

\* enrichment_airlabs.normalize_airlabs (the fields the tracker reads)
normalize_airlabs(rec) ==
    LET dep == Or(rec.dep_iata, NoneV)
        arr == Or(rec.arr_iata, NoneV)
    IN [airline_icao |-> rec.airline_icao, airline_iata |-> rec.airline_iata,
        company |-> airline_code_to_company(rec.airline_icao, rec.airline_iata),
        flight_icao |-> rec.flight_icao, flight_iata |-> NoneV, flight_number |-> NoneV,
        dep_iata |-> rec.dep_iata, dep_icao |-> NoneV,
        arr_iata |-> rec.arr_iata, arr_icao |-> NoneV,
        route |-> Or(dep, Tok("???")) \o Tok("->") \o Or(arr, Tok("???")),
        matched_by |-> rec.matched_by]

\* enrichment_airlabs.enrich_plane; r gives the answer to each request
enrich_plane(hex_code, flight_icao, r) ==
    LET h == fetch_airlabs_record(r.hex, "hex", hex_code)
        fc == normalize_flight_code(flight_icao)
        f == fetch_airlabs_record(r.flight, "flight", fc)
        alts == build_alt_flight_variants(fc)
        a == IF alts = << >> THEN [rec |-> NoneV, net |-> << >>]
             ELSE fetch_airlabs_record(r.alt, "flight", alts[1])
    IN
    IF Truthy(h.rec)
    THEN [enriched |-> normalize_airlabs(h.rec), status |-> <<"airlabs", "ok", "hex">>,
          net |-> h.net]
    ELSE IF Truthy(flight_icao) /\ Truthy(fc)
    THEN IF Truthy(f.rec)
         THEN [enriched |-> normalize_airlabs(f.rec),
               status |-> <<"airlabs", "ok", "flight">>, net |-> h.net \o f.net]
         ELSE IF Truthy(a.rec)
         THEN [enriched |-> normalize_airlabs(a.rec),
               status |-> <<"airlabs", "ok", "flight_alt">> \o alts[1],
               net |-> h.net \o f.net \o a.net]
         ELSE [enriched |-> NoneV, status |-> <<"airlabs", "no_match">>,
               net |-> h.net \o f.net \o a.net]
    ELSE [enriched |-> NoneV, status |-> <<"airlabs", "no_match">>, net |-> h.net]

\* What aviationstack can answer to GET /v1/flights
AviationstackAnswers == {"err", "http", "empty", "full"}

\* enrichment_aviationstack.normalize_aviationstack (the fields the tracker reads)
normalize_aviationstack(fc) ==
    [airline_icao |-> Tok("CNS"), airline_iata |-> NoneV, company |-> Tok("Cobalt"),
     flight_icao |-> fc, flight_iata |-> NoneV, flight_number |-> NoneV,
     dep_iata |-> Tok("OAK"), dep_icao |-> NoneV,
     arr_iata |-> Tok("LAX"), arr_icao |-> NoneV,
     route |-> <<"OAK", "->", "LAX">>,
     source |-> Tok("aviationstack")]

\* enrichment_aviationstack._cache_get: returns the value and the new _MEM_CACHE
_cache_get(mem, disk, key, ttl_s, t) ==
    IF Has(mem, key) /\ (t - mem[key].ts) <= ttl_s
    THEN [val |-> mem[key].val, mem |-> mem]
    ELSE IF Has(disk, key) /\ (t - disk[key].ts) <= ttl_s /\ Truthy(disk[key].val)
    THEN [val |-> disk[key].val, mem |-> Put(mem, key, [ts |-> t, val |-> disk[key].val])]
    ELSE [val |-> NoneV, mem |-> mem]

\* enrichment_aviationstack._cache_put
_cache_put(c, key, val, t) ==
    [mem |-> Put(c.mem, key, [ts |-> t, val |-> val]),
     disk |-> Put(c.disk, key, [ts |-> t, val |-> val])]

\* enrichment_aviationstack.enrich_plane_aviationstack
enrich_plane_aviationstack(flight_icao, r, has_key, mem, disk, t) ==
    LET fc == _normalize_callsign(flight_icao)
        cache_key == <<"flight_icao:">> \o fc
        cached == _cache_get(mem, disk, cache_key, _DEFAULT_TTL_S, t)
        c0 == [mem |-> cached.mem, disk |-> disk]
        req == << [provider |-> "aviationstack", key |-> fc] >>
        Res(enriched, status, net, c) ==
            [enriched |-> enriched, status |-> status, net |-> net,
             mem |-> c.mem, disk |-> c.disk]
    IN
    IF ~has_key
    THEN Res(NoneV, <<"aviationstack", "disabled", "no_key">>, << >>,
             [mem |-> mem, disk |-> disk])
    ELSE IF fc = << >>
    THEN Res(NoneV, <<"aviationstack", "skip", "empty">>, << >>,
             [mem |-> mem, disk |-> disk])
    ELSE IF Truthy(cached.val)
    THEN Res(cached.val, <<"aviationstack", "cache">>, << >>, c0)
    ELSE CASE r = "err" ->
                Res(NoneV, <<"aviationstack", "error", "timeout">>, req,
                    _cache_put(c0, cache_key, NoneV, t))
           [] r = "http" ->
                Res(NoneV, <<"aviationstack", "http", "500">>, req,
                    _cache_put(c0, cache_key, NoneV, t))
           [] r = "empty" ->
                Res(NoneV, <<"aviationstack", "no_match">>, req,
                    _cache_put(c0, cache_key, NoneV, t))
           [] OTHER ->
                Res(normalize_aviationstack(fc), <<"aviationstack", "ok">>, req,
                    _cache_put(c0, cache_key, normalize_aviationstack(fc), t))

-----------------------------------------------------------------------------
(* planes_opensky.py: helpers *)

\* A PlaneState of the feed: [icao24, callsign, dist]; the position is
\* modelled by its great-circle distance to home, which is all tick reads.
haversine_m(p) == p.dist

_route_is_present(route_obj) ==
    /\ Truthy(strip(Get(route_obj, "from", NoneV)))
    /\ Truthy(strip(Get(route_obj, "to", NoneV)))

\* _stable_display_from_meta: "{company} {flight_s}  {route}"
_stable_display_from_meta(meta, fallback_label) ==
    LET airline == Get(meta, "airline", NoneV)
        enriched == Get(meta, "enriched", NoneV)
        company1 ==
            IF Truthy(airline)
            THEN IF Truthy(strip(Get(airline, "name", NoneV)))
                 THEN strip(airline.name)
                 ELSE LET code == Or(Get(airline, "icao", NoneV), Get(airline, "iata", NoneV))
                      IN IF Truthy(strip(code)) THEN upper(strip(code)) ELSE Tok("Unknown")
            ELSE Tok("Unknown")
        company ==
            IF Truthy(enriched)
            THEN IF Truthy(strip(Get(enriched, "company", NoneV)))
                 THEN strip(enriched.company)
                 ELSE IF company1 = Tok("Unknown")
                 THEN LET code == Or(Get(enriched, "airline_icao", NoneV),
                                     Get(enriched, "airline_iata", NoneV))
                      IN IF Truthy(strip(code)) THEN upper(strip(code)) ELSE company1
                 ELSE company1
            ELSE company1
        flight ==
            Or(Get(meta, "callsign_iata", NoneV),
            Or(Get(meta, "callsign_icao", NoneV),
            Or(Get(enriched, "flight_iata", NoneV),
            Or(Get(enriched, "flight_icao", NoneV),
            Or(Get(enriched, "flight_number", NoneV),
            Or(fallback_label, Tok("UNK")))))))
        flight_s == Or(remove_spaces(strip(flight)), Tok("UNK"))
        r == Get(meta, "route", NoneV)
        route1 ==
            IF Truthy(r) /\ Truthy(strip(Get(r, "from", NoneV)))
                         /\ Truthy(strip(Get(r, "to", NoneV)))
            THEN strip(r.from) \o Tok("->") \o strip(r.to)
            ELSE NoneV
        route2 ==
            IF ~Truthy(route1) /\ Truthy(enriched)
            THEN LET rt == Get(enriched, "route", NoneV)
                     dep == Or(Get(enriched, "dep_iata", NoneV), Get(enriched, "dep_icao", NoneV))
                     arr == Or(Get(enriched, "arr_iata", NoneV), Get(enriched, "arr_icao", NoneV))
                 IN IF Truthy(strip(rt)) /\ ~(\E i \in 1..Len(rt) : rt[i] = "???")
                    THEN strip(rt)
                    ELSE IF Truthy(dep) /\ Truthy(arr)
                    THEN strip(dep) \o Tok("->") \o strip(arr)
                    ELSE NoneV
            ELSE route1
        route == Or(route2, <<"???", "->", "???">>)
    IN company \o Tok(" ") \o flight_s \o <<" ", " ">> \o route

\* OpenSkyPlaneTracker._cache_plane_live_meta
_cache_plane_live_meta(cache, p) ==
    LET cached == Get(cache, p.icao24, EmptyDict)
        upd == Put(Put(cached, "callsign", p.callsign),
                   "label", Or(normalize_callsign(p.callsign), p.callsign))
    IN Put(cache, p.icao24, upd)

\* OpenSkyPlaneTracker._can_send_overhead
_can_send_overhead(oh, icao24, t) ==
    (t - Get(oh, icao24, 0)) >= overhead_cooldown_seconds

\* _adsbdb_lookup_cached lines 443-445: whatever the provider returned is
\* stored; nothing is stored when the call raised
adsbdb_store(cache, cs, res, t) ==
    IF res.raised
    THEN [cache |-> cache] @@ res
    ELSE [cache |-> Put(cache, cs, [cached_at |-> t, norm |-> res.norm, raw |-> res.raw])]
         @@ res

\* OpenSkyPlaneTracker._adsbdb_lookup_cached: the result and the new cache
_adsbdb_lookup_cached(cache, callsign, r, t) ==
    LET cs == normalize_callsign(callsign) IN
    IF cs = << >>
    THEN [cache |-> cache] @@
         AdsbdbResult(NoneV, NoneV, <<"adsbdb", "skip", "empty">>, << >>, FALSE)
    ELSE IF Has(cache, cs) /\ (t - cache[cs].cached_at) < _adsbdb_cache_ttl_s
    THEN [cache |-> cache] @@
         AdsbdbResult(cache[cs].norm, cache[cs].raw, <<"adsbdb", "cache">>, << >>, FALSE)
    ELSE adsbdb_store(cache, cs, enrich_callsign_adsbdb(cs, r), t)

-----------------------------------------------------------------------------
(* OpenSkyPlaneTracker.tick.  The working state t of one tick carries the   *)
(* tracker's fields, the events emitted so far (out), the provider requests *)
(* issued so far (net) and whether an exception has escaped (raised); once  *)
(* raised, the remaining statements of the tick do not run.  During ENTER   *)
(* the cascade works on c = [t, meta], meta being the event's metadata.     *)

Event(event, id, label, meta) == [event |-> event, id |-> id, label |-> label, meta |-> meta]

\* EventWriter.emit, called from tick; the failAt-th call of the tick raises
\* (an I/O error on the console or the JSONL file), 0 meaning none does
Emit(t, ev, failAt) ==
    IF t.emits + 1 = failAt
    THEN [t EXCEPT !.emits = @ + 1, !.raised = TRUE]
    ELSE [t EXCEPT !.emits = @ + 1, !.out = Append(@, ev)]

\* tick lines 454-464: record every plane of the snapshot
RECURSIVE Observe(_, _, _)
Observe(t, planes, tnow) ==
    IF planes = << >> THEN t
    ELSE LET p == Head(planes)
         IN Observe([t EXCEPT
                      !.seen_now = Put(@, p.icao24, p),
                      !.seen_any = Put(@, p.icao24, tnow),
                      !.dist = Put(@, p.icao24, haversine_m(p)),
                      !.pos = Put(@, p.icao24, p.dist),
                      !.cur = IF haversine_m(p) <= radius_m
                              THEN IF \E i \in 1..Len(@) : @[i].icao24 = p.icao24
                                   THEN [i \in 1..Len(@) |->
                                           IF @[i].icao24 = p.icao24 THEN p ELSE @[i]]
                                   ELSE Append(@, p)
                              ELSE @],
                    Tail(planes), tnow)

\* tick lines 495-513: what ENTER does with the ADSBDB result
adsbdb_apply(c, p, look) ==
    LET m1 == Put(c.meta, "adsbdb_status", look.status)
        m2 == IF Truthy(look.raw) THEN Put(m1, "adsbdb", look.raw) ELSE m1
        m3 == IF Truthy(look.norm)
              THEN Put(Put(Put(Put(Put(m2,
                     "route", look.norm.route),
                     "airline", look.norm.airline),
                     "callsign_iata", look.norm.callsign_iata),
                     "callsign_icao", look.norm.callsign_icao),
                     "enrich_source", Tok("adsbdb"))
              ELSE m2
        c1 == Put(Put(Put(Put(Put(Put(Put(Get(c.t.cache, p.icao24, EmptyDict),
                     "adsbdb_status", look.status),
                     "adsbdb", look.raw),
                     "route", look.norm.route),
                     "airline", look.norm.airline),
                     "callsign_iata", look.norm.callsign_iata),
                     "callsign_icao", look.norm.callsign_icao),
                     "enrich_source", Tok("adsbdb"))
    IN IF look.raised
       THEN [t |-> [c.t EXCEPT !.raised = TRUE, !.net = @ \o look.net], meta |-> c.meta]
       ELSE [t |-> [c.t EXCEPT !.adsb = look.cache, !.net = @ \o look.net,
                               !.cache = IF Truthy(look.norm) THEN Put(@, p.icao24, c1) ELSE @],
             meta |-> m3]

\* tick lines 487-513: ADSBDB first
CascadeAdsbdb(c, p, r, tnow) ==
    adsbdb_apply(c, p,
        IF Truthy(normalize_callsign(p.callsign))
        THEN _adsbdb_lookup_cached(c.t.adsb, normalize_callsign(p.callsign), r, tnow)
        ELSE [cache |-> c.t.adsb] @@
             AdsbdbResult(NoneV, NoneV, <<"adsbdb", "skip">>, << >>, FALSE))

\* tick lines 519-529: what ENTER does with the AirLabs result
airlabs_apply(c, p, res) ==
    LET m1 == Put(c.meta, "airlabs_status", res.status)
        c1 == Put(Put(Put(Get(c.t.cache, p.icao24, EmptyDict),
                          "airlabs_status", res.status),
                      "enriched", res.enriched), "enrich_source", Tok("airlabs"))
    IN [t |-> [c.t EXCEPT !.net = @ \o res.net,
                          !.cache = IF Truthy(res.enriched) THEN Put(@, p.icao24, c1) ELSE @],
        meta |-> IF Truthy(res.enriched)
                 THEN Put(Put(m1, "enriched", res.enriched), "enrich_source", Tok("airlabs"))
                 ELSE m1]

\* A variant of the AirLabs step that does not look at the provider's key
CascadeAirlabs_without_key(c, p, r) ==
    IF c.t.raised THEN c
    ELSE IF ~_route_is_present(Get(c.meta, "route", NoneV))
    THEN airlabs_apply(c, p, enrich_plane(Tok(p.icao24), normalize_callsign(p.callsign), r))
    ELSE c

\* tick lines 515-531: AirLabs fallback
CascadeAirlabs(c, p, r) ==
    IF c.t.raised THEN c
    ELSE IF ~_route_is_present(Get(c.meta, "route", NoneV)) /\ _airlabs_enabled
    THEN airlabs_apply(c, p, enrich_plane(Tok(p.icao24), normalize_callsign(p.callsign), r))
    ELSE c

\* tick lines 542-552: what ENTER does with the aviationstack result
aviationstack_apply(c, p, res) ==
    LET m1 == Put(c.meta, "aviationstack_status", res.status)
        c1 == Put(Put(Put(Get(c.t.cache, p.icao24, EmptyDict),
                          "aviationstack_status", res.status),
                      "enriched", res.enriched), "enrich_source", Tok("aviationstack"))
    IN [t |-> [c.t EXCEPT !.net = @ \o res.net, !.mem = res.mem, !.disk = res.disk,
                          !.cache = IF Truthy(res.enriched) THEN Put(@, p.icao24, c1) ELSE @],
        meta |-> IF Truthy(res.enriched)
                 THEN Put(Put(m1, "enriched", res.enriched),
                          "enrich_source", Tok("aviationstack"))
                 ELSE m1]

\* A variant of the aviationstack step that runs whenever the route is still
\* incomplete, whatever AirLabs reported
CascadeAviationstack_any_status(c, p, r, tnow) ==
    IF c.t.raised THEN c
    ELSE IF /\ ~_route_is_present(Get(c.meta, "route", NoneV))
            /\ _aviationstack_enabled
            /\ Get(c.meta, "airlabs_status", NoneV) # NoneV
    THEN aviationstack_apply(c, p,
             enrich_plane_aviationstack(normalize_callsign(p.callsign), r,
                                        _aviationstack_enabled, c.t.mem, c.t.disk, tnow))
    ELSE c

\* tick lines 533-556: aviationstack fallback
CascadeAviationstack(c, p, r, tnow) ==
    IF c.t.raised THEN c
    ELSE IF /\ ~_route_is_present(Get(c.meta, "route", NoneV))
            /\ _aviationstack_enabled
            /\ Get(c.meta, "airlabs_status", NoneV) = <<"airlabs", "no_match">>
    THEN IF Truthy(normalize_callsign(p.callsign))
         THEN aviationstack_apply(c, p,
                  enrich_plane_aviationstack(normalize_callsign(p.callsign), r,
                                             _aviationstack_enabled, c.t.mem, c.t.disk, tnow))
         ELSE [t |-> c.t,
               meta |-> Put(c.meta, "aviationstack_status",
                            <<"aviationstack", "skip", "empty_callsign">>)]
    ELSE c

\* tick lines 558-577: the stable display, cached and attached; ENTER emitted
enter_emit(c, p, failAt) ==
    LET cached == Get(c.t.cache, p.icao24, EmptyDict)
        stable_label == Or(Get(cached, "label", NoneV),
                        Or(normalize_callsign(p.callsign), Or(p.callsign, Tok(p.icao24))))
        display == _stable_display_from_meta(c.meta, stable_label)
    IN IF c.t.raised THEN c.t
       ELSE Emit([c.t EXCEPT !.cache = Put(@, p.icao24,
                                           Put(Put(cached, "display", display),
                                               "label", stable_label))],
                 Event("ENTER", p.icao24, stable_label, Put(c.meta, "display", display)),
                 failAt)

\* tick lines 475-577: the ENTER event of a newly tracked plane
EnterEvent(t, p, resp, tnow, failAt) ==
    enter_emit(
        CascadeAviationstack(
            CascadeAirlabs(
                CascadeAdsbdb([t |-> t,
                               meta |-> [dist_m |-> Get(t.dist, p.icao24, 0),
                                         radius_m |-> radius_m,
                                         radius_exit_m |-> radius_exit_m,
                                         exit_confirm_polls |-> exit_confirm_polls]],
                              p, resp.adsbdb, tnow),
                p, resp.airlabs),
            p, resp.aviationstack, tnow),
        p, failAt)

EnrichmentKeys == {"route", "airline", "adsbdb", "adsbdb_status", "enriched",
                   "airlabs_status", "aviationstack_status", "enrich_source",
                   "callsign_iata", "callsign_icao"}
\* A variant of the copy that rebuilds the display from the live cache entry
CopyCached_live_display(meta, cached, keys) ==
    LET ks == {k \in keys : Has(cached, k) /\ cached[k] # NoneV}
        m1 == Put(meta, "display",
                  _stable_display_from_meta(cached, Get(cached, "label", NoneV)))
    IN [k \in (DOMAIN m1) \cup ks |-> IF k \in ks THEN cached[k] ELSE m1[k]]

\* lines 599-617 and 676-691: copy display and the enrichment resolved at ENTER
CopyCached(meta, cached, keys) ==
    LET ks == {k \in keys : Has(cached, k) /\ cached[k] # NoneV}
        m1 == IF Truthy(Get(cached, "display", NoneV))
              THEN Put(meta, "display", cached["display"]) ELSE meta
    IN [k \in (DOMAIN m1) \cup ks |-> IF k \in ks THEN cached[k] ELSE m1[k]]

\* tick lines 579-628: the OVERHEAD event
OverheadEvent(t, p, tnow, failAt) ==
    LET icao24 == p.icao24
        dist_m == Get(t.dist, icao24, 999999999)
        cached == Get(t.cache, icao24, EmptyDict)
        label == Or(Get(cached, "label", NoneV),
                 Or(normalize_callsign(Get(cached, "callsign", NoneV)),
                 Or(p.callsign, Tok(icao24))))
    IN IF t.raised THEN t
       ELSE IF dist_m <= overhead_radius_m /\ _can_send_overhead(t.oh, icao24, tnow)
       THEN Emit([t EXCEPT !.oh = Put(@, icao24, tnow)],
                 Event("OVERHEAD", icao24, label,
                       CopyCached([dist_m |-> dist_m, pos |-> Get(t.pos, icao24, NoneV),
                                   overhead_radius_m |-> overhead_radius_m,
                                   cooldown_s |-> overhead_cooldown_seconds],
                                  cached, EnrichmentKeys)),
                 failAt)
       ELSE t

\* tick lines 468-472: the plane is (still) inside
mark_inside(t, p, tnow) ==
    [t EXCEPT !.inside = OSet(@, p.icao24, tnow),
              !.polls = Put(@, p.icao24, 0),
              !.cache = _cache_plane_live_meta(@, p)]

\* tick lines 467-628: one iteration of the loop over currently_inside
InsideStep(t, p, resp, tnow, failAt) ==
    OverheadEvent(IF ~OHas(t.inside, p.icao24)
                  THEN EnterEvent(mark_inside(t, p, tnow), p, resp[p.icao24], tnow, failAt)
                  ELSE mark_inside(t, p, tnow),
                  p, tnow, failAt)

RECURSIVE InsideLoop(_, _, _, _, _)
InsideLoop(t, cur, resp, tnow, failAt) ==
    IF cur = << >> \/ t.raised THEN t
    ELSE InsideLoop(InsideStep(t, Head(cur), resp, tnow, failAt), Tail(cur), resp, tnow, failAt)

ExitKeys == {"route", "airline", "adsbdb_status", "airlabs_status",
             "aviationstack_status", "enrich_source", "callsign_iata", "callsign_icao"}

\* tick line 704: the id is queued for removal once its EXIT is emitted
queue_removal(t, icao24) ==
    IF t.raised THEN t ELSE [t EXCEPT !.to_remove = Append(@, icao24)]

\* tick lines 659-704: the EXIT event
ExitEvent(t, icao24, reason, failAt) ==
    LET cached == Get(t.cache, icao24, EmptyDict)
    IN queue_removal(
           Emit(t, Event("EXIT", icao24,
                         Or(Get(cached, "label", NoneV),
                            Or(Get(cached, "callsign", NoneV), Tok(icao24))),
                         CopyCached([reason |-> reason,
                                     last_dist_m |-> Get(t.dist, icao24, 0),
                                     radius_m |-> radius_m,
                                     radius_exit_m |-> radius_exit_m,
                                     exit_confirm_polls |-> exit_confirm_polls,
                                     outside_polls |-> Get(t.polls, icao24, 0)],
                                    cached, ExitKeys)),
                failAt),
           icao24)

\* tick lines 639-651: the plane is in the snapshot, outside the enter radius
exit_seen(t, icao24, polls, failAt) ==
    IF polls < exit_confirm_polls
    THEN [t EXCEPT !.polls = Put(@, icao24, polls)]
    ELSE ExitEvent([t EXCEPT !.polls = Put(@, icao24, polls)], icao24,
                   "out_of_radius", failAt)

\* A variant of the iteration that measures the grace period from the last
\* time inside only
ExitStep_since_inside(t, e, tnow, failAt) ==
    IF \E i \in 1..Len(t.cur) : t.cur[i].icao24 = e.id THEN t
    ELSE IF Has(t.seen_now, e.id)
    THEN exit_seen(t, e.id,
                   IF Get(t.dist, e.id, 999999999) >= radius_exit_m
                   THEN Get(t.polls, e.id, 0) + 1 ELSE 0,
                   failAt)
    ELSE IF tnow - e.ts < disappear_grace_seconds THEN t
         ELSE ExitEvent(t, e.id, "signal_lost", failAt)

\* A variant of the loop's body that keeps an aircraft the feed no longer
\* reports
ExitStep_seen_only(t, e, tnow, failAt) ==
    IF \E i \in 1..Len(t.cur) : t.cur[i].icao24 = e.id THEN t
    ELSE IF Has(t.seen_now, e.id)
    THEN exit_seen(t, e.id,
                   IF Get(t.dist, e.id, 999999999) >= radius_exit_m
                   THEN Get(t.polls, e.id, 0) + 1 ELSE 0,
                   failAt)
    ELSE t

\* tick lines 633-657: one iteration of the loop over list(self._inside.items())
ExitStep(t, e, tnow, failAt) ==
    IF \E i \in 1..Len(t.cur) : t.cur[i].icao24 = e.id THEN t
    ELSE IF Has(t.seen_now, e.id)
    THEN exit_seen(t, e.id,
                   IF Get(t.dist, e.id, 999999999) >= radius_exit_m
                   THEN Get(t.polls, e.id, 0) + 1 ELSE 0,
                   failAt)
    ELSE IF tnow - Max(e.ts, Get(t.seen_any, e.id, 0)) < disappear_grace_seconds THEN t
         ELSE ExitEvent(t, e.id, "signal_lost", failAt)

RECURSIVE ExitLoop(_, _, _, _)
ExitLoop(t, items, tnow, failAt) ==
    IF items = << >> \/ t.raised THEN t
    ELSE ExitLoop(ExitStep(t, Head(items), tnow, failAt), Tail(items), tnow, failAt)

\* A variant of the eviction that also forgets the last OVERHEAD time
RECURSIVE Evict_with_overhead(_, _)
Evict_with_overhead(t, ids) ==
    IF ids = << >> THEN t
    ELSE Evict_with_overhead([t EXCEPT !.inside = OPop(@, Head(ids)),
                                       !.cache = Pop(@, Head(ids)),
                                       !.dist = Pop(@, Head(ids)),
                                       !.pos = Pop(@, Head(ids)),
                                       !.seen_any = Pop(@, Head(ids)),
                                       !.polls = Pop(@, Head(ids)),
                                       !.oh = Pop(@, Head(ids))],
                             Tail(ids))

\* tick lines 706-713: evict the exited ids; _last_overhead_sent is kept
RECURSIVE Evict(_, _)
Evict(t, ids) ==
    IF ids = << >> THEN t
    ELSE Evict([t EXCEPT !.inside = OPop(@, Head(ids)),
                         !.cache = Pop(@, Head(ids)),
                         !.dist = Pop(@, Head(ids)),
                         !.pos = Pop(@, Head(ids)),
                         !.seen_any = Pop(@, Head(ids)),
                         !.polls = Pop(@, Head(ids))],
               Tail(ids))

\* tick lines 467-628, 630-704 and 706-713 on the working state
inside_phase(t, resp, tnow, failAt) == InsideLoop(t, t.cur, resp, tnow, failAt)
exit_phase(t, tnow, failAt) == ExitLoop(t, t.inside, tnow, failAt)
evict_phase(t) == IF t.raised THEN t ELSE Evict(t, t.to_remove)

\* The working state at the start of a tick: the tracker's fields
Working ==
    [inside |-> _inside, seen_any |-> _last_seen_any,
     dist |-> _last_dist_m, pos |-> _last_position,
     polls |-> _outside_polls, cache |-> _plane_cache,
     oh |-> _last_overhead_sent, adsb |-> _adsbdb_cache,
     mem |-> _MEM_CACHE, disk |-> disk_cache,
     seen_now |-> EmptyDict, cur |-> << >>, to_remove |-> << >>,
     out |-> << >>, net |-> << >>, emits |-> 0, raised |-> FALSE]

\* OpenSkyPlaneTracker.tick on the snapshot _fetch returned
tick(planes, resp, tnow, failAt) ==
    evict_phase(
        exit_phase(
            inside_phase(Observe(Working, planes, tnow), resp, tnow, failAt),
            tnow, failAt))

\* run_forever lines 719-729: the WARN event for a tick that raised
LoopError == Event("WARN", "opensky", Tok("loop_error"), [error |-> Tok("exception")])

-----------------------------------------------------------------------------
(* The plane tracker's environment and its run_forever loop *)

Ids == {"a1", "b2"}

\* Distances a plane can be reported at: on the overhead radius, on the enter
\* radius, in the hysteresis buffer, on the exit radius
Dists == {overhead_radius_m, radius_m, radius_m + 500, radius_exit_m}

\* Callsign field s[1] of a state vector: a callsign, or none
UAL1 == <<"U", "A", "L", "1">>
RawCallsigns == { UAL1, << >> }

\* Snapshots holding the one aircraft id, reported with callsign field raw
One(id, raw) ==
    { <<p>> : p \in [icao24 : {id}, callsign : {feed_callsign(raw)}, dist : Dists] }

\* The sleep of poll_seconds, or a pause that ends poll_seconds short of the
\* overhead cooldown
LongDelay == overhead_cooldown_seconds - poll_seconds

\* What the three providers answer to the requests made for one aircraft
Answers == [adsbdb : AdsbdbAnswers,
            airlabs : [hex : AirlabsAnswers, flight : AirlabsAnswers, alt : AirlabsAnswers],
            aviationstack : AviationstackAnswers]
NoMatch == [adsbdb |-> "404",
            airlabs |-> [hex |-> "empty", flight |-> "empty", alt |-> "empty"],
            aviationstack |-> "empty"]
Same(a) == [i \in Ids |-> a]

(* History kept for checking only, per icao24:                              *)
(*   run       consecutive snapshots containing the id, up to the latest    *)
(*             one, that reported it at >= radius_exit_m                     *)
(*   lastSeen  time of the latest snapshot containing the id (-1: none)     *)
(*   ohLast, ohPrev  times of the last two OVERHEAD events (-1: none)       *)
(*   display   meta["display"] of the latest ENTER event                    *)
(*   enterCs   the callsign the feed reported on the tick of that ENTER     *)
(*   label     the label of that ENTER event                                *)
(*   open      an ENTER was emitted and no EXIT since                       *)
(*   inVisit   open before the last tick, or ENTER emitted by it            *)
(*   wasInside the id was in _inside before the last tick                   *)
Hist0 == [i \in Ids |-> [run |-> 0, lastSeen |-> -1, ohLast |-> -1, ohPrev |-> -1,
                         display |-> NoneV, enterCs |-> NoneV, label |-> NoneV,
                         open |-> FALSE,
                         inVisit |-> FALSE, wasInside |-> FALSE]]

EventsOf(out, kind, id) == SelectSeq(out, LAMBDA e : e.event = kind /\ e.id = id)

NextHist(h, planes, out, tnow) ==
    [i \in Ids |->
        LET obs == SelectSeq(planes, LAMBDA p : p.icao24 = i)
            enters == EventsOf(out, "ENTER", i)
            exits == EventsOf(out, "EXIT", i)
            ohs == EventsOf(out, "OVERHEAD", i)
        IN [run |-> IF obs = << >> THEN h[i].run
                    ELSE IF obs[Len(obs)].dist >= radius_exit_m THEN h[i].run + 1 ELSE 0,
            lastSeen |-> IF obs = << >> THEN h[i].lastSeen ELSE tnow,
            ohLast |-> IF ohs = << >> THEN h[i].ohLast ELSE tnow,
            ohPrev |-> IF ohs = << >> THEN h[i].ohPrev ELSE h[i].ohLast,
            display |-> IF enters = << >> THEN h[i].display
                        ELSE enters[Len(enters)].meta.display,
            enterCs |-> IF enters = << >> THEN h[i].enterCs ELSE obs[Len(obs)].callsign,
            label |-> IF enters = << >> THEN h[i].label ELSE enters[Len(enters)].label,
            open |-> (h[i].open \/ enters # << >>) /\ exits = << >>,
            inVisit |-> h[i].open \/ enters # << >>,
            wasInside |-> OHas(_inside, i)]]

\* The tracker as __init__ leaves it, for a configured radius and provider keys
PlaneInit ==
    /\ now = overhead_cooldown_seconds
    /\ ticks = 0
    /\ radius_km \in {1, 2}
    /\ _airlabs_enabled \in BOOLEAN
    /\ _aviationstack_enabled \in BOOLEAN
    /\ _inside = << >>
    /\ _last_seen_any = EmptyDict
    /\ _last_dist_m = EmptyDict
    /\ _last_position = EmptyDict
    /\ _outside_polls = EmptyDict
    /\ _plane_cache = EmptyDict
    /\ _last_overhead_sent = EmptyDict
    /\ _adsbdb_cache = EmptyDict
    /\ _MEM_CACHE = EmptyDict
    /\ disk_cache = EmptyDict
    /\ emitted = << >>
    /\ calls = << >>
    /\ seen = EmptyDict
    /\ answers = Same(NoMatch)
    /\ hist = Hist0

\* run_forever lines 717-729: the events of an iteration, with the WARN
\* event when tick raised
loop_events(t) == IF t.raised THEN Append(t.out, LoopError) ELSE t.out

\* The tracker's fields after an iteration whose tick ended in working state
\* t and that handed the events to the sink
CommitWith(t, planes, resp, tnow, events) ==
    /\ now' = tnow
    /\ _inside' = t.inside
    /\ _last_seen_any' = t.seen_any
    /\ _last_dist_m' = t.dist
    /\ _last_position' = t.pos
    /\ _outside_polls' = t.polls
    /\ _plane_cache' = t.cache
    /\ _last_overhead_sent' = t.oh
    /\ _adsbdb_cache' = t.adsb
    /\ _MEM_CACHE' = t.mem
    /\ disk_cache' = t.disk
    /\ emitted' = events
    /\ calls' = t.net
    /\ seen' = [i \in {planes[k].icao24 : k \in 1..Len(planes)} |->
                  planes[CHOOSE k \in 1..Len(planes) : planes[k].icao24 = i]]
    /\ answers' = resp
    /\ hist' = NextHist(hist, planes, events, tnow)

\* The same, the WARN event of run_forever reaching the sink
Commit(t, planes, resp, tnow) == CommitWith(t, planes, resp, tnow, loop_events(t))

\* One iteration of run_forever: tick, the WARN event if it raised, the sleep
Tick(dt, planes, resp, failAt) ==
    /\ ticks < MaxTicks
    /\ ticks' = ticks + 1
    /\ Commit(tick(planes, resp, now + dt, failAt), planes, resp, now + dt)
    /\ UNCHANGED <<radius_km, _airlabs_enabled, _aviationstack_enabled>>
    /\ UNCHANGED <<lookupVars, reloadVars, sinkVars, loopVars, fetchVars, satVars, airVars>>

-----------------------------------------------------------------------------
(* sats_skyfield.py: data/space_objects.json and its hot reload.  The text  *)
(* of the file is a sequence of tokens: an opening brace, one token per     *)
(* entry of "objects", a closing brace.  A write that has not finished      *)
(* leaves a proper prefix of the text.                                      *)

Brace(b) == [k |-> b, id |-> 0, monitor |-> FALSE]
Entry(id, monitor) == [k |-> "entry", id |-> id, monitor |-> monitor]
Document(entries) == <<Brace("{")>> \o entries \o <<Brace("}")>>

\* The complete, well-formed allow-lists an editor saves
Documents == { Document(<<Entry(25544, TRUE), Entry(20580, FALSE)>>),
               Document(<<Entry(25544, TRUE), Entry(48274, TRUE)>>),
               Document(<<Entry(25544, TRUE)>>) }
Torn(doc) == { SubSeq(doc, 1, n) : n \in 1..(Len(doc) - 1) }

\* Texts that are valid JSON and no allow-list: a top-level array; an object
\* whose "objects" member is an array; an "objects" mapping with, beside a
\* good entry, a non-numeric key and a value that is no object
BadKey == [k |-> "bad_key", id |-> 0, monitor |-> TRUE]
BadObject(id) == [k |-> "bad_obj", id |-> id, monitor |-> TRUE]
Malformed == { <<Brace("["), Brace("]")>>,
               <<Brace("{["), Brace("]}")>>,
               Document(<<Entry(48274, TRUE), BadKey, BadObject(25544)>>) }
\* What an editor can save
Saved == Documents \cup Malformed

\* self._space_objects_mtime = None
NoMtime == -1
\* cfg only_norad_ids, the static fallback list
only_norad_ids == {33591}

\* json.loads, lines 154-157: the text parses iff it is a whole document;
\* shape tells the opening of the value parsed
json_loads(raw) ==
    IF Len(raw) >= 2
       /\ <<raw[1].k, raw[Len(raw)].k>> \in { <<"{", "}">>, <<"{[", "]}">>, <<"[", "]">> }
       /\ \A n \in 2..(Len(raw) - 1) : raw[n].k \in {"entry", "bad_key", "bad_obj"}
    THEN [ok |-> TRUE, shape |-> raw[1].k, objects |-> SubSeq(raw, 2, Len(raw) - 1)]
    ELSE [ok |-> FALSE, shape |-> "", objects |-> << >>]

\* the text is a JSON object whose "objects" member maps numeric-id strings
\* to objects
WellFormed(raw) ==
    /\ json_loads(raw).ok
    /\ json_loads(raw).shape = "{"
    /\ \A n \in 1..Len(json_loads(raw).objects) : json_loads(raw).objects[n].k = "entry"

\* What _load_space_objects_allowlist returns: None, or (allow, meta_map)
Loaded(allow, meta_map) == [none |-> FALSE, allow |-> allow, meta |-> meta_map]
LoadedNone == [none |-> TRUE, allow |-> {}, meta |-> EmptyDict]

\* _load_space_objects_allowlist lines 154-178, on the text read_text returned
parse_allowlist(raw) ==
    LET payload == json_loads(raw)
        \* lines 159-161: a payload that is no dict, or whose "objects" is no
        \* dict, gives (set(), {}); line 168: bad entries are skipped
        objs == SelectSeq(payload.objects, LAMBDA o : o.k = "entry")
        ids == {objs[n].id : n \in 1..Len(objs)}
        last(i) == objs[CHOOSE n \in 1..Len(objs) :
                          objs[n].id = i /\ \A m \in (n + 1)..Len(objs) : objs[m].id # i]
    IN IF ~payload.ok THEN LoadedNone
       ELSE IF payload.shape # "{" THEN Loaded({}, EmptyDict)
       ELSE Loaded({i \in ids : last(i).monitor}, [i \in ids |-> last(i)])

\* SkyfieldSatelliteTracker._effective_allowlist
_effective_allowlist(allow) == IF allow # {} THEN allow ELSE only_norad_ids

Snapshot == [allow |-> _space_allow, meta |-> _space_meta, mtime |-> _space_objects_mtime]

\* A variant of the call's end that takes a failed load for an empty list
OnLoaded_clears(loaded, saw) ==
    /\ _space_allow' = loaded.allow
    /\ _space_meta' = loaded.meta
    /\ _space_objects_mtime' = frame.mtime
    /\ ret' = [value |-> (loaded.allow # _space_allow) \/ frame.force,
               event |-> IF loaded.none THEN "WARN" ELSE "INFO", saw |-> saw,
               n |-> ret.n + 1]

\* _reload_space_objects_if_needed lines 274-314: what the call does with the
\* value the load returned; saw tells what the load met
OnLoaded(loaded, saw) ==
    IF loaded.none
    THEN /\ UNCHANGED <<_space_allow, _space_meta, _space_objects_mtime>>
         /\ ret' = [value |-> FALSE, event |-> "WARN", saw |-> saw, n |-> ret.n + 1]
    ELSE /\ _space_allow' = loaded.allow
         /\ _space_meta' = loaded.meta
         /\ _space_objects_mtime' = frame.mtime
         /\ ret' = [value |-> (loaded.allow # _space_allow) \/ frame.force,
                    event |-> "INFO", saw |-> saw, n |-> ret.n + 1]

\* return False on lines 262, 267 and 270: nothing is touched, nothing emitted
ReturnFalse(saw) ==
    /\ UNCHANGED <<_space_allow, _space_meta, _space_objects_mtime>>
    /\ ret' = [value |-> FALSE, event |-> "none", saw |-> saw, n |-> ret.n + 1]

\* tick line 476 calls _reload_space_objects_if_needed(force=False)
Reload ==
    /\ UNCHANGED <<planeVars, lookupVars, sinkVars, loopVars, fetchVars, satVars, airVars>>
    /\ pc = "idle"
    /\ ret.n < MaxReloads
    /\ pc' = "exists"
    /\ frame' = [force |-> FALSE, mtime |-> NoMtime, raw |-> << >>]
    /\ pre' = Snapshot
    /\ UNCHANGED <<file, _space_allow, _space_meta, _space_objects_mtime, ret, edits>>

\* line 260: self.space_objects_path.exists()
ReloadExists ==
    /\ UNCHANGED <<planeVars, lookupVars, sinkVars, loopVars, fetchVars, satVars, airVars>>
    /\ pc = "exists"
    /\ IF file.exists
       THEN /\ pc' = "stat"
            /\ UNCHANGED <<_space_allow, _space_meta, _space_objects_mtime, ret>>
       ELSE /\ pc' = "idle"
            /\ ReturnFalse("absent")
    /\ UNCHANGED <<file, frame, pre, edits>>

\* lines 264-270: stat, and the comparison with the stored mtime
ReloadStat ==
    /\ UNCHANGED <<planeVars, lookupVars, sinkVars, loopVars, fetchVars, satVars, airVars>>
    /\ pc = "stat"
    /\ IF ~file.exists
       THEN /\ pc' = "idle"
            /\ ReturnFalse("absent")
            /\ UNCHANGED frame
       ELSE IF ~frame.force /\ _space_objects_mtime # NoMtime
               /\ file.mtime = _space_objects_mtime
       THEN /\ pc' = "idle"
            /\ ReturnFalse("unchanged")
            /\ UNCHANGED frame
       ELSE /\ pc' = "load"
            /\ frame' = [frame EXCEPT !.mtime = file.mtime]
            /\ UNCHANGED <<_space_allow, _space_meta, _space_objects_mtime, ret>>
    /\ UNCHANGED <<file, pre, edits>>

\* _load_space_objects_allowlist lines 145-147: a missing file is (set(), {})
ReloadLoadExists ==
    /\ UNCHANGED <<planeVars, lookupVars, sinkVars, loopVars, fetchVars, satVars, airVars>>
    /\ pc = "load"
    /\ IF file.exists
       THEN /\ pc' = "read"
            /\ UNCHANGED <<_space_allow, _space_meta, _space_objects_mtime, ret>>
       ELSE /\ pc' = "idle"
            /\ OnLoaded(Loaded({}, EmptyDict), "vanished")
    /\ UNCHANGED <<file, frame, pre, edits>>

\* lines 149-152: read_text; it raises on a missing or unreadable file
ReloadRead ==
    /\ UNCHANGED <<planeVars, lookupVars, sinkVars, loopVars, fetchVars, satVars, airVars>>
    /\ pc = "read"
    /\ IF file.exists /\ file.readable
       THEN /\ pc' = "parse"
            /\ frame' = [frame EXCEPT !.raw = file.raw]
            /\ UNCHANGED <<_space_allow, _space_meta, _space_objects_mtime, ret>>
       ELSE /\ pc' = "idle"
            /\ OnLoaded(LoadedNone, "unreadable")
            /\ UNCHANGED frame
    /\ UNCHANGED <<file, pre, edits>>

\* lines 154-178, then lines 274-314 of the caller
ReloadParse ==
    /\ UNCHANGED <<planeVars, lookupVars, sinkVars, loopVars, fetchVars, satVars, airVars>>
    /\ pc = "parse"
    /\ pc' = "idle"
    /\ OnLoaded(parse_allowlist(frame.raw),
                IF WellFormed(frame.raw) THEN "valid"
                ELSE IF json_loads(frame.raw).ok THEN "malformed" ELSE "invalid")
    /\ UNCHANGED <<file, frame, pre, edits>>

(* A concurrent editor of the file: every operation advances the mtime *)
Edit(f) ==
    /\ UNCHANGED <<planeVars, lookupVars, sinkVars, loopVars, fetchVars, satVars, airVars>>
    /\ edits < MaxEdits
    /\ edits' = edits + 1
    /\ file' = [f EXCEPT !.mtime = file.mtime + 1]
    /\ UNCHANGED <<_space_allow, _space_meta, _space_objects_mtime, pc, frame, pre, ret>>

\* open(path, "w"): the file exists and is empty
Truncate == Edit([file EXCEPT !.exists = TRUE, !.raw = << >>])
\* part of the text has reached the file
WritePartial == \E doc \in Documents : \E raw \in Torn(doc) :
    file.exists /\ Edit([file EXCEPT !.raw = raw])
\* the whole text has reached the file
WriteComplete == \E doc \in Saved : file.exists /\ Edit([file EXCEPT !.raw = doc])
\* os.remove
Delete == file.exists /\ Edit([file EXCEPT !.exists = FALSE])
\* os.replace of a finished temporary file onto the path
Replace == \E doc \in Saved :
    Edit([file EXCEPT !.exists = TRUE, !.raw = doc, !.readable = TRUE])
\* chmod: the file can no longer be read
Protect == file.exists /\ file.readable /\ Edit([file EXCEPT !.readable = FALSE])

\* __init__ lines 220-222 and 244: the fields, and the forced first load begun
ReloadInit ==
    /\ file \in { [exists |-> FALSE, raw |-> << >>, mtime |-> 1, readable |-> TRUE] }
                \cup { [exists |-> TRUE, raw |-> doc, mtime |-> 1, readable |-> TRUE] :
                       doc \in Documents }
    /\ _space_allow = {}
    /\ _space_meta = EmptyDict
    /\ _space_objects_mtime = NoMtime
    /\ pc = "exists"
    /\ frame = [force |-> TRUE, mtime |-> NoMtime, raw |-> << >>]
    /\ pre = [allow |-> {}, meta |-> EmptyDict, mtime |-> NoMtime]
    /\ ret = [value |-> FALSE, event |-> "none", saw |-> "none", n |-> 0]
    /\ edits = 0

\* The allow-list file absent and the reloader at rest
ReloadOff ==
    /\ file = [exists |-> FALSE, raw |-> << >>, mtime |-> 1, readable |-> TRUE]
    /\ _space_allow = {}
    /\ _space_meta = EmptyDict
    /\ _space_objects_mtime = NoMtime
    /\ pc = "idle"
    /\ frame = [force |-> FALSE, mtime |-> NoMtime, raw |-> << >>]
    /\ pre = [allow |-> {}, meta |-> EmptyDict, mtime |-> NoMtime]
    /\ ret = [value |-> FALSE, event |-> "none", saw |-> "absent", n |-> MaxReloads]
    /\ edits = 0

-----------------------------------------------------------------------------
(* SkyfieldSatelliteTracker.tick: the reload, the TLE load, the passes *)

\* What a call that leaves the snapshot alone returns
Kept(snap, event, saw) ==
    [allow |-> snap.allow, meta |-> snap.meta, mtime |-> snap.mtime,
     value |-> FALSE, event |-> event, saw |-> saw]

\* A variant of the reload that takes a file it cannot read or parse for an
\* empty list
reload_now_clears(f, snap, force) ==
    IF ~f.exists THEN Kept(snap, "none", "absent")
    ELSE IF ~force /\ snap.mtime # NoMtime /\ f.mtime = snap.mtime
    THEN Kept(snap, "none", "unchanged")
    ELSE [allow |-> IF f.readable THEN parse_allowlist(f.raw).allow ELSE {},
          meta |-> IF f.readable THEN parse_allowlist(f.raw).meta ELSE EmptyDict,
          mtime |-> f.mtime,
          value |-> (IF f.readable THEN parse_allowlist(f.raw).allow ELSE {}) # snap.allow
                     \/ force,
          event |-> IF f.readable /\ ~parse_allowlist(f.raw).none THEN "INFO" ELSE "WARN",
          saw |-> IF ~f.readable THEN "unreadable"
                  ELSE IF parse_allowlist(f.raw).none THEN "invalid"
                  ELSE IF WellFormed(f.raw) THEN "valid" ELSE "malformed"]

\* _reload_space_objects_if_needed on the file f, no editor at work during
\* the call: the snapshot it leaves, the value it returns, the event it emits
reload_now(f, snap, force) ==
    IF ~f.exists THEN Kept(snap, "none", "absent")
    ELSE IF ~force /\ snap.mtime # NoMtime /\ f.mtime = snap.mtime
    THEN Kept(snap, "none", "unchanged")
    ELSE IF ~f.readable THEN Kept(snap, "WARN", "unreadable")
    ELSE IF parse_allowlist(f.raw).none THEN Kept(snap, "WARN", "invalid")
    ELSE [allow |-> parse_allowlist(f.raw).allow,
          meta |-> parse_allowlist(f.raw).meta,
          mtime |-> f.mtime,
          value |-> (parse_allowlist(f.raw).allow # snap.allow) \/ force,
          event |-> "INFO",
          saw |-> IF WellFormed(f.raw) THEN "valid" ELSE "malformed"]

\* The NORAD ids of the satellites parsed from the TLE text (sat_map), or the
\* text neither downloaded nor in the cache
Catalogs == { {25544, 48274, 33591} }
TleLoads == [ok : {TRUE}, ids : Catalogs] \cup {[ok |-> FALSE, ids |-> {}]}

\* The satellites above min_elev when the tick computes their positions
Skies == { {}, {25544, 48274} }

\* A variant of the filter that tracks the whole file whatever the flag says
tle_filter_all(all, sat_map, allow) == sat_map

\* _load_tles lines 413-419
tle_filter(all, sat_map, allow) ==
    IF all THEN sat_map
    ELSE {nid \in _effective_allowlist(allow) : nid \in sat_map}

\* _load_tles: the new self._sats
_load_tles(tle, all, allow) ==
    IF tle.ok THEN tle_filter(all, tle.ids, allow) ELSE {}

\* tick line 479: whether the TLEs are loaded on this tick
must_load(stale, allowlist_changed) ==
    _sats = {} \/ stale \/ (allowlist_changed /\ ~track_all)

\* tick lines 481-525 on the satellites tracked: ENTER for the ids newly above
\* min_elev, EXIT for those no longer above it
passes(tracked, sky) ==
    [now_over |-> tracked \cap sky,
     enter |-> (tracked \cap sky) \ _overhead,
     exit |-> _overhead \ (tracked \cap sky)]

\* The orders in which a loop can visit the members of S
Orders(S) ==
    { s \in [1..Cardinality(S) -> S] : \A i, j \in 1..Cardinality(S) : i # j => s[i] # s[j] }

\* What a tick emitted: all its events, or those before the emit that raised
\* (lines 491 and 508, the k-th emit of the tick, ENTERs first)
AllEmitted(p) == [raised |-> FALSE, enter |-> p.enter, exit |-> p.exit]
EmittedBefore(k, enters, exits) ==
    [raised |-> TRUE,
     enter |-> {enters[n] : n \in 1..Len(enters)} \cap
               {(enters \o exits)[n] : n \in 1..(k - 1)},
     exit |-> {exits[n] : n \in 1..Len(exits)} \cap
              {(enters \o exits)[n] : n \in 1..(k - 1)}]

\* The rest of the tick after the reload returned r; line 525 is not reached
\* by a tick that raised
SatTickWith(r, stale, tle, sky, tracked, done) ==
    /\ _space_allow' = r.allow
    /\ _space_meta' = r.meta
    /\ _space_objects_mtime' = r.mtime
    /\ pre' = Snapshot
    /\ ret' = [value |-> r.value, event |-> r.event, saw |-> r.saw, n |-> ret.n + 1]
    /\ _sats' = tracked
    /\ _overhead' = IF done.raised THEN _overhead ELSE passes(tracked, sky).now_over
    /\ sat' = [n |-> sat.n + 1, changed |-> r.value,
               loaded |-> must_load(stale, r.value),
               tle |-> IF must_load(stale, r.value) THEN tle ELSE [ok |-> FALSE, ids |-> {}],
               enter |-> done.enter,
               exit |-> done.exit,
               raised |-> done.raised,
               sats0 |-> _sats, over0 |-> _overhead, sky |-> sky,
               was |-> sat.open,
               open |-> (sat.open \cup done.enter) \ done.exit]

\* What the tick tracks after line 480
Tracked(stale, tle) ==
    IF must_load(stale, reload_now(file, Snapshot, FALSE).value)
    THEN _load_tles(tle, track_all, reload_now(file, Snapshot, FALSE).allow)
    ELSE _sats

\* SkyfieldSatelliteTracker.tick
SatTick == \E stale \in BOOLEAN, tle \in TleLoads, sky \in Skies :
    /\ pc = "idle"
    /\ sat.n < MaxSatTicks
    /\ SatTickWith(reload_now(file, Snapshot, FALSE), stale, tle, sky,
                   Tracked(stale, tle), AllEmitted(passes(Tracked(stale, tle), sky)))
    /\ UNCHANGED <<track_all, file, pc, frame, edits>>
    /\ UNCHANGED <<planeVars, lookupVars, sinkVars, loopVars, fetchVars, airVars>>

\* The emit that raises in a tick: its first or its second
SatFailAt == {1, 2}

\* SkyfieldSatelliteTracker.tick with writer.emit raising (the sink's write
\* fails); run_forever catches the exception
SatTickRaises == \E stale \in BOOLEAN, tle \in TleLoads, sky \in Skies, k \in SatFailAt :
    \E enters \in Orders(passes(Tracked(stale, tle), sky).enter),
       exits \in Orders(passes(Tracked(stale, tle), sky).exit) :
        /\ pc = "idle"
        /\ sat.n < MaxSatTicks
        /\ k <= Len(enters) + Len(exits)
        /\ SatTickWith(reload_now(file, Snapshot, FALSE), stale, tle, sky,
                       Tracked(stale, tle), EmittedBefore(k, enters, exits))
        /\ UNCHANGED <<track_all, file, pc, frame, edits>>
        /\ UNCHANGED <<planeVars, lookupVars, sinkVars, loopVars, fetchVars, airVars>>

\* __init__ lines 226-241: nothing tracked, nothing overhead
SatFields ==
    /\ _sats = {}
    /\ _overhead = {}
    /\ sat = [n |-> 0, changed |-> FALSE, loaded |-> FALSE,
              tle |-> [ok |-> FALSE, ids |-> {}], enter |-> {}, exit |-> {},
              raised |-> FALSE, sats0 |-> {}, over0 |-> {}, sky |-> {},
              was |-> {}, open |-> {}]

\* No aircraft placed around home
AirOff == airspace = << >>

\* The satellite tracker not running
SatOff == SatFields /\ track_all = FALSE

\* __init__: the configuration, and the forced first load done (line 244)
SatInit ==
    /\ SatFields
    /\ track_all \in BOOLEAN
    /\ file \in { [exists |-> FALSE, raw |-> << >>, mtime |-> 1, readable |-> TRUE] }
                \cup { [exists |-> TRUE, raw |-> doc, mtime |-> 1, readable |-> TRUE] :
                       doc \in Documents }
    /\ pre = [allow |-> {}, meta |-> EmptyDict, mtime |-> NoMtime]
    /\ _space_allow = reload_now(file, pre, TRUE).allow
    /\ _space_meta = reload_now(file, pre, TRUE).meta
    /\ _space_objects_mtime = reload_now(file, pre, TRUE).mtime
    /\ pc = "idle"
    /\ frame = [force |-> FALSE, mtime |-> NoMtime, raw |-> << >>]
    /\ ret = [value |-> reload_now(file, pre, TRUE).value,
              event |-> reload_now(file, pre, TRUE).event,
              saw |-> reload_now(file, pre, TRUE).saw, n |-> 1]
    /\ edits = 0

-----------------------------------------------------------------------------
(* The enrichment providers called one at a time, the way the cascade calls *)
(* them: _adsbdb_lookup_cached (line 493), enrich_plane (line 519) and      *)
(* enrich_plane_aviationstack (line 542).                                   *)

\* main.py line 79: enrichment.cache_ttl_seconds, the AirLabs TTL of the config
cache_ttl_seconds == 300

TtlOf(provider) ==
    CASE provider = "adsbdb" -> _adsbdb_cache_ttl_s
      [] provider = "airlabs" -> cache_ttl_seconds
      [] OTHER -> _DEFAULT_TTL_S

LookupKeys == { UAL1 }

\* The record of a lookup: prev is the time of the previous lookup of the
\* same identifier at the same provider (-1: none), was what it was answered,
\* since the time of the last request sent to the provider for it (-1: none)
Looked(provider, key, answer, status, net) ==
    LET k == <<provider>> \o key
    IN /\ lookup.n < MaxLookups
       /\ lookup' = [provider |-> provider, key |-> key, at |-> now,
                     prev |-> IF Has(asked, k) THEN asked[k].at ELSE -1,
                     was |-> IF Has(asked, k) THEN asked[k].answer ELSE "none",
                     since |-> IF Has(asked, k) THEN asked[k].called ELSE -1,
                     status |-> status, net |-> net, n |-> lookup.n + 1]
       /\ asked' = Put(asked, k, [at |-> now, answer |-> answer,
                                  called |-> IF net # << >> THEN now
                                             ELSE IF Has(asked, k) THEN asked[k].called
                                             ELSE -1])
       /\ calls' = net
       /\ UNCHANGED <<ticks, radius_km, _airlabs_enabled, _aviationstack_enabled,
                      _inside, _last_seen_any, _last_dist_m, _last_position,
                      _outside_polls, _plane_cache, _last_overhead_sent,
                      emitted, seen, answers, hist, now>>
       /\ UNCHANGED <<reloadVars, sinkVars, loopVars, fetchVars, satVars, airVars>>

LookupAdsbdbOf(keys) == \E cs \in keys, r \in AdsbdbAnswers :
    LET res == _adsbdb_lookup_cached(_adsbdb_cache, cs, r, now)
    IN /\ Looked("adsbdb", cs, r, res.status, res.net)
       /\ _adsbdb_cache' = res.cache
       /\ UNCHANGED <<_MEM_CACHE, disk_cache>>

LookupAirlabsOf(keys) == \E cs \in keys, k \in AirlabsAnswers :
    LET res == enrich_plane(Tok("a1"), cs, [hex |-> k, flight |-> k, alt |-> k])
    IN /\ _airlabs_enabled
       /\ Looked("airlabs", cs, k, res.status, res.net)
       /\ UNCHANGED <<_adsbdb_cache, _MEM_CACHE, disk_cache>>

LookupAviationstackOf(keys) == \E cs \in keys, r \in AviationstackAnswers :
    LET res == enrich_plane_aviationstack(cs, r, _aviationstack_enabled,
                                          _MEM_CACHE, disk_cache, now)
    IN /\ Looked("aviationstack", cs, r, res.status, res.net)
       /\ _MEM_CACHE' = res.mem
       /\ disk_cache' = res.disk
       /\ UNCHANGED _adsbdb_cache

LookupAdsbdb == LookupAdsbdbOf(LookupKeys)
LookupAirlabs == LookupAirlabsOf(LookupKeys)
LookupAviationstack == LookupAviationstackOf(LookupKeys)

\* Time passes between two lookups
Waits == {60, _adsbdb_cache_ttl_s}
Wait == \E dt \in Waits :
    /\ lookup.n < MaxLookups
    /\ now' = now + dt
    /\ lookup' = [lookup EXCEPT !.provider = "none", !.n = @ + 1]
    /\ UNCHANGED <<ticks, radius_km, _airlabs_enabled, _aviationstack_enabled,
                   _inside, _last_seen_any, _last_dist_m, _last_position,
                   _outside_polls, _plane_cache, _last_overhead_sent, _adsbdb_cache,
                   _MEM_CACHE, disk_cache, emitted, calls, seen, answers, hist>>
    /\ UNCHANGED <<asked, reloadVars, sinkVars, loopVars, fetchVars, satVars, airVars>>

\* The process is stopped and started again dt seconds later: the caches in
\* memory are empty, data/aviationstack_cache.json is as it was left
Downtimes == {60, _DEFAULT_TTL_S}
Restart == \E dt \in Downtimes :
    /\ _MEM_CACHE # EmptyDict \/ _adsbdb_cache # EmptyDict
    /\ now' = now + dt
    /\ _MEM_CACHE' = EmptyDict
    /\ _adsbdb_cache' = EmptyDict
    /\ UNCHANGED <<ticks, radius_km, _airlabs_enabled, _aviationstack_enabled,
                   _inside, _last_seen_any, _last_dist_m, _last_position,
                   _outside_polls, _plane_cache, _last_overhead_sent,
                   disk_cache, emitted, calls, seen, answers, hist>>
    /\ UNCHANGED <<lookupVars, reloadVars, sinkVars, loopVars, fetchVars, satVars, airVars>>

LookupInit ==
    /\ lookup = [provider |-> "none", key |-> << >>, at |-> 0, prev |-> -1,
                 was |-> "none", since |-> -1, status |-> << >>, net |-> << >>,
                 n |-> 0]
    /\ asked = EmptyDict

-----------------------------------------------------------------------------
(* run_forever of the two trackers *)

\* both loops running, no iteration made yet
LoopInit ==
    /\ running = [th \in {"planes", "sats"} |-> TRUE]
    /\ loop = [th \in {"planes", "sats"} |-> [n |-> 0, raised |-> FALSE, warns |-> 0]]

-----------------------------------------------------------------------------
(* OpenSkyPlaneTracker._fetch and OpenSkyOAuthToken.  The working record f  *)
(* of one _fetch carries what it returns (out), the WARN events it emits,   *)
(* the new _backoff_until and token, the GETs to the position source, the   *)
(* POSTs to the token endpoint, and whether an exception escapes (raised).  *)

_TOKEN_SAFETY_SKEW_SECONDS == 30
\* _fetch_new line 214: the default of expires_in
expires_in == 1800

\* What the position source answers to the GET: a status, a 200 whose body
\* is no JSON, or nothing (requests raises)
Responses == {"200", "non_json", "401", "429", "500", "timeout"}
\* The Retry-After header of a 429: absent, a number, or unparsable text
RetryAfters == {"none", "1", "120", "soon"}

\* OpenSkyOAuthToken._fetch_new; answer is what the token endpoint does
_fetch_new(tok, t, answer) ==
    IF answer = "ok"
    THEN [token |-> [set |-> TRUE,
                     expires_at |-> t + expires_in - _TOKEN_SAFETY_SKEW_SECONDS],
          posts |-> 1, raised |-> FALSE]
    ELSE [token |-> tok, posts |-> 1, raised |-> TRUE]

\* OpenSkyOAuthToken.get
token_get(tok, t, answer) ==
    IF ~tok.set \/ t >= tok.expires_at
    THEN _fetch_new(tok, t, answer)
    ELSE [token |-> tok, posts |-> 0, raised |-> FALSE]

\* OpenSkyOAuthToken.force_refresh
force_refresh(tok, t, answer) == token_get([set |-> FALSE, expires_at |-> 0], t, answer)

\* _emit_warn
Warn(label) == Event("WARN", "opensky", Tok(label), EmptyDict)

\* _fetch lines 359-363: int(float(retry_after)), 60 when absent or unparsable
wait_s(h) == CASE h = "1" -> 1 [] h = "120" -> 120 [] OTHER -> 60

\* A variant of the deadline that takes the header's value as it is
backoff_deadline_raw(t, h) == t + wait_s(h)

\* _fetch line 364
backoff_deadline(t, h) == t + Max(5, wait_s(h))

\* OpenSkyPlaneTracker._headers: the token is fetched when unset or expired
headers(f, t, ta) ==
    [f EXCEPT !.token = token_get(f.token, t, ta).token,
              !.posts = @ + token_get(f.token, t, ta).posts,
              !.raised = token_get(f.token, t, ta).raised]

\* requests.get, lines 348 and 356: r is the answer; a timeout raises
http_get(f, r, which) ==
    IF f.raised THEN f
    ELSE [f EXCEPT !.gets = @ + 1, !.raised = (r = "timeout"),
                   !.first = IF which = 1 THEN r ELSE @,
                   !.second = IF which = 2 THEN r ELSE @]

\* _fetch lines 358-409: what is done with the response r
after_response(f, r, h, planes, t) ==
    IF f.raised THEN f
    ELSE CASE r = "429" ->
                [f EXCEPT !.backoff = backoff_deadline(t, h),
                          !.warns = Append(@, Warn("rate_limited")),
                          !.got429 = TRUE, !.h = h]
           [] r \in {"401", "500"} ->
                [f EXCEPT !.warns = Append(@, Warn("fetch_failed"))]
           [] r = "non_json" ->
                [f EXCEPT !.warns = Append(@, Warn("non_json_response"))]
           [] OTHER -> [f EXCEPT !.out = planes]

\* _fetch lines 351-352: the forced refresh, its exception caught
refresh(f, t, ta) ==
    [f EXCEPT !.token = force_refresh(f.token, t, ta).token,
              !.posts = @ + force_refresh(f.token, t, ta).posts,
              !.refreshes = @ + 1,
              !.refresh_failed = force_refresh(f.token, t, ta).raised]

\* A variant of the retry in which a failed refresh is not caught
fetch_retry_uncaught(f, t, ta, r2, h, planes) ==
    IF f.refresh_failed
    THEN [f EXCEPT !.raised = TRUE]
    ELSE after_response(http_get(headers(f, t, ta), r2, 2), r2, h, planes, t)

\* _fetch lines 353-356: WARN and [] when the refresh failed, else the retry
fetch_retry(f, t, ta, r2, h, planes) ==
    IF f.refresh_failed
    THEN [f EXCEPT !.warns = Append(@, Warn("oauth_refresh_failed"))]
    ELSE after_response(http_get(headers(f, t, ta), r2, 2), r2, h, planes, t)

\* _fetch lines 348-356: the first GET, and the 401 branch
fetch_first(f, t, r1, ta, r2, h, planes) ==
    IF f.raised THEN f
    ELSE IF r1 = "401"
    THEN fetch_retry(refresh(f, t, ta), t, ta, r2, h, planes)
    ELSE after_response(f, r1, h, planes, t)

\* the record of a _fetch that has done nothing yet
Fetch0 ==
    [out |-> << >>, warns |-> << >>, backoff |-> _backoff_until, token |-> _token,
     gets |-> 0, posts |-> 0, refreshes |-> 0, refresh_failed |-> FALSE,
     raised |-> FALSE, skipped |-> FALSE, got429 |-> FALSE, h |-> "none",
     first |-> "none", second |-> "none"]

\* A variant of _fetch that raises while the backoff lasts
_fetch_backoff_raises(t, r1, ta, r2, h, planes) ==
    IF t < _backoff_until
    THEN [Fetch0 EXCEPT !.skipped = TRUE, !.raised = TRUE]
    ELSE fetch_first(http_get(headers(Fetch0, t, ta), r1, 1), t, r1, ta, r2, h, planes)

\* OpenSkyPlaneTracker._fetch at time t
_fetch(t, r1, ta, r2, h, planes) ==
    IF t < _backoff_until
    THEN [Fetch0 EXCEPT !.skipped = TRUE]
    ELSE fetch_first(http_get(headers(Fetch0, t, ta), r1, 1), t, r1, ta, r2, h, planes)

\* __init__ lines 283-285, and no _fetch made yet
FetchInit ==
    /\ _backoff_until = 0
    /\ _token = [set |-> FALSE, expires_at |-> 0]
    /\ fetched = [Fetch0 EXCEPT !.backoff = 0, !.token = [set |-> FALSE, expires_at |-> 0]]
                    @@ [n |-> 0, at |-> 0, backoff_before |-> 0, polls_before |-> EmptyDict,
                        prev_skipped |-> FALSE]

-----------------------------------------------------------------------------
(* event_writer.EventWriter.emit, called by the two tracker threads.  print  *)
(* writes the line and its end-of-line to stdout as two writes.              *)

Threads == {"planes", "sats"}

\* emit line 618: with self._lock, reached
EmitCall(th) ==
    /\ emit_pc[th] = "idle"
    /\ sent[th] < MaxEmits
    /\ emit_pc' = [emit_pc EXCEPT ![th] = "acquire"]
    /\ sent' = [sent EXCEPT ![th] = @ + 1]
    /\ UNCHANGED <<_lock, _fh, console, jsonl>>
    /\ UNCHANGED <<planeVars, lookupVars, reloadVars, loopVars, fetchVars, satVars, airVars>>

\* A variant of the acquisition that does not wait for the lock
EmitAcquire_unlocked(th) ==
    /\ emit_pc[th] = "acquire"
    /\ _lock' = th
    /\ emit_pc' = [emit_pc EXCEPT ![th] = "print"]
    /\ UNCHANGED <<_fh, sent, console, jsonl>>
    /\ UNCHANGED <<planeVars, lookupVars, reloadVars, loopVars, fetchVars, satVars, airVars>>

\* emit line 618: the lock is acquired once it is free
EmitAcquire(th) ==
    /\ emit_pc[th] = "acquire"
    /\ _lock = "free"
    /\ _lock' = th
    /\ emit_pc' = [emit_pc EXCEPT ![th] = "print"]
    /\ UNCHANGED <<_fh, sent, console, jsonl>>
    /\ UNCHANGED <<planeVars, lookupVars, reloadVars, loopVars, fetchVars, satVars, airVars>>

\* emit line 619, _print_pretty: print writes the text of the line
EmitPrintText(th) ==
    /\ emit_pc[th] = "print"
    /\ console' = Append(console, [by |-> th, n |-> sent[th], part |-> "text"])
    /\ emit_pc' = [emit_pc EXCEPT ![th] = "end"]
    /\ UNCHANGED <<_lock, _fh, sent, jsonl>>
    /\ UNCHANGED <<planeVars, lookupVars, reloadVars, loopVars, fetchVars, satVars, airVars>>

\* emit lines 619-620: print writes the end of the line; stdout is flushed
EmitPrintEnd(th) ==
    /\ emit_pc[th] = "end"
    /\ console' = Append(console, [by |-> th, n |-> sent[th], part |-> "nl"])
    /\ emit_pc' = [emit_pc EXCEPT ![th] = "write"]
    /\ UNCHANGED <<_lock, _fh, sent, jsonl>>
    /\ UNCHANGED <<planeVars, lookupVars, reloadVars, loopVars, fetchVars, satVars, airVars>>

\* emit lines 622-625: the JSONL record, when a file is configured; leaving
\* the with block releases the lock
EmitWrite(th) ==
    /\ emit_pc[th] = "write"
    /\ jsonl' = IF _fh THEN Append(jsonl, [by |-> th, n |-> sent[th]]) ELSE jsonl
    /\ _lock' = IF _lock = th THEN "free" ELSE _lock
    /\ emit_pc' = [emit_pc EXCEPT ![th] = "idle"]
    /\ UNCHANGED <<_fh, sent, console>>
    /\ UNCHANGED <<planeVars, lookupVars, reloadVars, loopVars, fetchVars, satVars, airVars>>

\* emit lines 624-625: the write raises; the with block releases the lock and
\* the exception goes to the caller
EmitWriteRaises(th) ==
    /\ emit_pc[th] = "write"
    /\ _fh
    /\ _lock' = IF _lock = th THEN "free" ELSE _lock
    /\ emit_pc' = [emit_pc EXCEPT ![th] = "idle"]
    /\ UNCHANGED <<_fh, sent, console, jsonl>>
    /\ UNCHANGED <<planeVars, lookupVars, reloadVars, loopVars, fetchVars, satVars, airVars>>

\* EventWriter.__init__ lines 364-368, before either thread has emitted
SinkInit ==
    /\ _lock = "free"
    /\ _fh \in BOOLEAN
    /\ emit_pc = [th \in Threads |-> "idle"]
    /\ sent = [th \in Threads |-> 0]
    /\ console = << >>
    /\ jsonl = << >>
SinkOff == SinkInit /\ _fh

-----------------------------------------------------------------------------
(* Specifications *)

\* The plane tracker polling a feed that shows aircraft a1 come and go; the
\* event sink or ADSBDB may fail during a tick
Feed == One("a1", UAL1) \cup { << >> }
Intruder == [icao24 |-> "b2", callsign |-> UAL1, dist |-> radius_m]

Poll == \E planes \in Feed : Tick(poll_seconds, planes, Same(NoMatch), 0)
LongPause == \E planes \in Feed : Tick(LongDelay, planes, Same(NoMatch), 0)
\* the feed reports a1 without callsign, and ADSBDB knows the route
PollRenamed == \E planes \in One("a1", << >>) :
    Tick(poll_seconds, planes, Same([NoMatch EXCEPT !.adsbdb = "route"]), 0)
\* the first EventWriter.emit of the tick raises
PollSinkFault == \E planes \in One("a1", UAL1) : Tick(poll_seconds, planes, Same(NoMatch), 1)
\* b2 comes into the radius and ADSBDB answers its lookup with a JSON value
\* that is no object
PollBadShape == \E planes \in One("a1", UAL1) :
    Tick(poll_seconds, Append(planes, Intruder),
         [i \in Ids |-> IF i = "b2" THEN [NoMatch EXCEPT !.adsbdb = "bad_shape"]
                        ELSE NoMatch], 0)

Init ==
    /\ PlaneInit
    /\ _airlabs_enabled
    /\ _aviationstack_enabled
    /\ LookupInit
    /\ ReloadOff
    /\ SinkOff
    /\ LoopInit
    /\ FetchInit
    /\ SatOff
    /\ AirOff
Next == Poll \/ LongPause \/ PollRenamed \/ PollSinkFault \/ PollBadShape
Spec == Init /\ [][Next]_vars

\* ENTER ticks under every combination of provider keys and provider answers
EnrichAnswers ==
    { a \in Answers : /\ a.adsbdb \in {"404", "route"}
                      /\ a.airlabs.alt = a.airlabs.flight
                      /\ a.aviationstack \in {"empty", "full"} }
Enter == \E id \in Ids, a \in EnrichAnswers :
    /\ ticks < MaxEnters
    /\ Tick(poll_seconds, << [icao24 |-> id, callsign |-> UAL1, dist |-> radius_m] >>,
            Same(a), 0)
InitEnrich ==
    /\ PlaneInit
    /\ radius_km = 2
    /\ LookupInit
    /\ ReloadOff
    /\ SinkOff
    /\ LoopInit
    /\ FetchInit
    /\ SatOff
    /\ AirOff
NextEnrich == Enter
SpecEnrich == InitEnrich /\ [][NextEnrich]_vars

\* Direct lookups at the three providers, with both keys configured
InitLookup ==
    /\ PlaneInit
    /\ radius_km = 2
    /\ _airlabs_enabled
    /\ _aviationstack_enabled
    /\ LookupInit
    /\ ReloadOff
    /\ SinkOff
    /\ LoopInit
    /\ FetchInit
    /\ SatOff
    /\ AirOff
NextLookup == LookupAdsbdb \/ LookupAirlabs \/ LookupAviationstack \/ Wait
SpecLookup == InitLookup /\ [][NextLookup]_vars

\* The satellite tracker's reloader and a concurrent editor of the file
InitReload ==
    /\ PlaneInit
    /\ radius_km = 2
    /\ _airlabs_enabled
    /\ _aviationstack_enabled
    /\ LookupInit
    /\ ReloadInit
    /\ SinkOff
    /\ LoopInit
    /\ FetchInit
    /\ SatOff
    /\ AirOff
NextReload ==
    \/ Reload \/ ReloadExists \/ ReloadStat \/ ReloadLoadExists \/ ReloadRead
    \/ ReloadParse
    \/ Truncate \/ WritePartial \/ WriteComplete \/ Delete \/ Replace \/ Protect
SpecReload == InitReload /\ [][NextReload]_vars

-----------------------------------------------------------------------------
(* Properties of the plane tracker's geofence *)

\* The last tick was aborted by an exception, caught by run_forever
Aborted == \E k \in 1..Len(emitted) :
    emitted[k].event = "WARN" /\ emitted[k].label = Tok("loop_error")
Emitted(kind, i) == \E k \in 1..Len(emitted) : emitted[k].event = kind /\ emitted[k].id = i
Exited(i, reason) ==
    \E k \in 1..Len(emitted) :
        /\ emitted[k].event = "EXIT"
        /\ emitted[k].id = i
        /\ emitted[k].meta.reason = reason

\* C1: an EXIT with reason out_of_radius is emitted only when the aircraft was
\* reported at or beyond the exit radius by the last exit_confirm_polls
\* snapshots that contained it, and every snapshot that reports a tracked
\* aircraft inside the exit radius leaves its outside-poll counter at 0.
C1_ExitNeedsConfirmedPolls ==
    \A i \in Ids :
        /\ Exited(i, "out_of_radius") => hist[i].run >= exit_confirm_polls
        /\ (i \in DOMAIN seen /\ OHas(_inside, i) /\ seen[i].dist < radius_exit_m)
              => Get(_outside_polls, i, 0) = 0

\* C2: an EXIT with reason signal_lost is emitted only on a tick whose snapshot
\* lacks the aircraft and that comes at least disappear_grace_seconds after the
\* last snapshot that contained it; on a completed tick it is emitted for every
\* tracked aircraft in that situation, whatever its outside-poll counter.
C2_SignalLostOnlyAfterGrace ==
    \A i \in Ids :
        /\ Exited(i, "signal_lost") =>
              /\ i \notin DOMAIN seen
              /\ hist[i].lastSeen >= 0
              /\ now - hist[i].lastSeen >= disappear_grace_seconds
        /\ (/\ hist[i].wasInside
            /\ i \notin DOMAIN seen
            /\ ~Aborted
            /\ now - hist[i].lastSeen >= disappear_grace_seconds)
              => Exited(i, "signal_lost")

\* a signal_lost EXIT of an aircraft whose outside-poll counter stood at 1
C2_Witness ==
    \E k \in 1..Len(emitted) :
        /\ emitted[k].event = "EXIT"
        /\ emitted[k].meta.reason = "signal_lost"
        /\ emitted[k].meta.outside_polls = 1
        /\ emitted[k].meta.outside_polls < exit_confirm_polls

\* C3: the first tick that observes an untracked aircraft within the enter
\* radius emits ENTER; a tick that observes a tracked aircraft between the
\* enter and the exit radius emits no EXIT and keeps it tracked; a tick that
\* observes a tracked aircraft at or beyond the exit radius emits EXIT
\* out_of_radius exactly when it is the exit_confirm_polls-th such
\* observation in a row.
C3_EnterBufferExit ==
    \A i \in DOMAIN seen :
        /\ (seen[i].dist <= radius_m /\ ~hist[i].wasInside) => Emitted("ENTER", i)
        /\ (hist[i].wasInside /\ seen[i].dist > radius_m /\ seen[i].dist < radius_exit_m)
              => ~Emitted("EXIT", i) /\ OHas(_inside, i)
        /\ (hist[i].wasInside /\ seen[i].dist >= radius_exit_m)
              => (Exited(i, "out_of_radius") <=> hist[i].run = exit_confirm_polls)

\* C6: every OVERHEAD and EXIT event of a visit carries in meta["display"]
\* the display string of the visit's ENTER event.
C6_DisplayStable ==
    \A k \in 1..Len(emitted) :
        (emitted[k].event \in {"OVERHEAD", "EXIT"} /\ hist[emitted[k].id].inVisit)
          => /\ "display" \in DOMAIN emitted[k].meta
             /\ emitted[k].meta.display = hist[emitted[k].id].display
             /\ hist[emitted[k].id].display # NoneV

\* an OVERHEAD or EXIT of a visit on a tick whose snapshot reports another
\* callsign than the snapshot of the ENTER
C6_Witness ==
    \E k \in 1..Len(emitted) :
        /\ emitted[k].event \in {"OVERHEAD", "EXIT"}
        /\ hist[emitted[k].id].inVisit
        /\ ~Emitted("ENTER", emitted[k].id)
        /\ emitted[k].id \in DOMAIN seen
        /\ seen[emitted[k].id].callsign # hist[emitted[k].id].enterCs
        /\ emitted[k].meta.display = hist[emitted[k].id].display

\* C7: two OVERHEAD events of one aircraft are at least
\* overhead_cooldown_seconds apart, also across an EXIT and a new ENTER, and
\* no tick emits two.
C7_OverheadCooldown ==
    \A i \in Ids :
        /\ Len(EventsOf(emitted, "OVERHEAD", i)) <= 1
        /\ hist[i].ohPrev >= 0 =>
              hist[i].ohLast - hist[i].ohPrev >= overhead_cooldown_seconds

\* a re-ENTER within overhead range and within the cooldown of the previous
\* visit's OVERHEAD: no OVERHEAD is emitted
C7_Witness ==
    \E i \in DOMAIN seen :
        /\ Emitted("ENTER", i)
        /\ ~Aborted
        /\ seen[i].dist <= overhead_radius_m
        /\ hist[i].ohLast >= 0
        /\ now - hist[i].ohLast < overhead_cooldown_seconds
        /\ ~Emitted("OVERHEAD", i)

-----------------------------------------------------------------------------
(* Properties of the allow-list reloader *)

\* C4: a call whose load fails on an unreadable or syntactically invalid file
\* returns false, emits WARN and leaves the monitored-id set, the metadata
\* map, the stored mtime and the effective allow-list as they were.
C4_FailedLoadKeepsSnapshot ==
    (pc = "idle" /\ ret.saw \in {"unreadable", "invalid"})
      => /\ ret.value = FALSE
         /\ ret.event = "WARN"
         /\ Snapshot = pre
         /\ _effective_allowlist(_space_allow) = _effective_allowlist(pre.allow)

\* a valid list is loaded, and a later call has met a changed, invalid file
C4_Witness ==
    /\ pc = "idle"
    /\ ret.saw = "invalid"
    /\ pre.allow # {}
    /\ pre.mtime # NoMtime
    /\ file.mtime # pre.mtime
    /\ _space_allow = pre.allow

\* C5: whatever the editor does between the steps of a call, the snapshot
\* after the call is the one before it or the one of a complete well-formed
\* document.
C5_SnapshotNeverCleared ==
    (pc = "idle" /\ ret.n > 0 /\ ret.saw # "malformed")
      => \/ _space_allow = pre.allow /\ _space_meta = pre.meta
         \/ \E doc \in Documents :
               /\ _space_allow = parse_allowlist(doc).allow
               /\ _space_meta = parse_allowlist(doc).meta

-----------------------------------------------------------------------------
(* Properties of the enrichment providers and of the cascade *)

\* C8: a lookup of an identifier that the same provider was asked for less
\* than its TTL ago issues no request and returns the status <provider>:cache,
\* whatever the earlier lookup was answered.
C8_RepeatServedFromCache ==
    (/\ lookup.provider # "none"
     /\ lookup.prev >= 0
     /\ lookup.at - lookup.prev < TtlOf(lookup.provider))
      => /\ lookup.net = << >>
         /\ lookup.status = <<lookup.provider, "cache">>

AviationstackCalled == \E k \in 1..Len(calls) : calls[k].provider = "aviationstack"
AirlabsCalled == \E k \in 1..Len(calls) : calls[k].provider = "airlabs"

\* ADSBDB had no route for the aircraft of ENTER event e, and AirLabs, enabled,
\* returned a record with a departure airport and no arrival airport
OriginOnly(e) ==
    /\ e.event = "ENTER"
    /\ _airlabs_enabled
    /\ _aviationstack_enabled
    /\ e.meta.adsbdb_status \in { <<"adsbdb", "unknown">>, <<"adsbdb", "cache">> }
    /\ "route" \notin DOMAIN e.meta
    /\ LET res == enrich_plane(Tok(e.id), normalize_callsign(seen[e.id].callsign),
                               answers[e.id].airlabs)
       IN /\ Truthy(res.enriched)
          /\ Truthy(res.enriched.dep_iata)
          /\ ~Truthy(res.enriched.arr_iata)

\* C9 as the specification states it: in that case aviationstack is called,
\* and when it answers with a full record enrich_source is aviationstack.
C9_FallbackAfterOriginOnly ==
    \A k \in 1..Len(emitted) :
        (OriginOnly(emitted[k]) /\ answers[emitted[k].id].aviationstack = "full")
          => /\ AviationstackCalled
             /\ emitted[k].meta.enrich_source = Tok("aviationstack")

\* C9: in that case aviationstack is not called; the AirLabs record, with its
\* incomplete route, stays the result and enrich_source is airlabs.
C9_OriginOnlyStaysAirlabs ==
    \A k \in 1..Len(emitted) :
        OriginOnly(emitted[k])
          => /\ ~AviationstackCalled
             /\ "aviationstack_status" \notin DOMAIN emitted[k].meta
             /\ emitted[k].meta.enrich_source = Tok("airlabs")
             /\ ~Truthy(emitted[k].meta.enriched.arr_iata)

\* the case of C9, with aviationstack ready to answer with a full record
C9_Witness ==
    \E k \in 1..Len(emitted) :
        /\ OriginOnly(emitted[k])
        /\ answers[emitted[k].id].aviationstack = "full"
        /\ emitted[k].meta.airlabs_status = <<"airlabs", "ok", "hex">>

\* C10: a tick calls aviationstack only if AirLabs is enabled, was called, and
\* none of its requests failed.
C10_FallbackOnlyAfterNoMatch ==
    \A i \in DOMAIN seen :
        (Emitted("ENTER", i) /\ AviationstackCalled)
          => /\ _airlabs_enabled
             /\ AirlabsCalled
             /\ answers[i].airlabs.hex # "err"
             /\ answers[i].airlabs.flight # "err"
             /\ answers[i].airlabs.alt # "err"

\* the rank of a provider in the cascade
Rank(provider) == CASE provider = "adsbdb" -> 1 [] provider = "airlabs" -> 2 [] OTHER -> 3

\* the AirLabs answers for aircraft i hold a record with both airports
AirlabsComplete(i) ==
    LET res == enrich_plane(Tok(i), normalize_callsign(seen[i].callsign), answers[i].airlabs)
    IN /\ Truthy(res.enriched)
       /\ Truthy(res.enriched.dep_iata)
       /\ Truthy(res.enriched.arr_iata)

\* C11: the requests of a tick go to ADSBDB, then AirLabs, then aviationstack;
\* AirLabs and aviationstack are called only when their key is present and
\* no complete route has been obtained; after a complete route from ADSBDB
\* neither is called, after one from AirLabs aviationstack is not.
C11_CascadeOrder ==
    /\ \A j, k \in 1..Len(calls) :
          j < k => Rank(calls[j].provider) <= Rank(calls[k].provider)
    /\ AirlabsCalled => _airlabs_enabled
    /\ AviationstackCalled => _aviationstack_enabled
    /\ \A k \in 1..Len(emitted) :
          LET e == emitted[k] IN
          e.event = "ENTER" =>
            /\ _route_is_present(Get(e.meta, "route", NoneV))
                 => ~AirlabsCalled /\ ~AviationstackCalled
            /\ (AirlabsCalled /\ AirlabsComplete(e.id)) => ~AviationstackCalled
    /\ (AirlabsCalled \/ AviationstackCalled) => \E i \in Ids : Emitted("ENTER", i)

\* ADSBDB had no route, AirLabs gave a complete one, and aviationstack, though
\* its key is present, was not called
C11_Witness ==
    \E k \in 1..Len(emitted) :
        /\ emitted[k].event = "ENTER"
        /\ _airlabs_enabled
        /\ _aviationstack_enabled
        /\ calls # << >>
        /\ calls[1].provider = "adsbdb"
        /\ AirlabsCalled
        /\ AirlabsComplete(emitted[k].id)
        /\ ~AviationstackCalled

\* C12: an aircraft that comes inside while ADSBDB answers its lookup with a
\* malformed body still gets its ENTER event on that tick, with an
\* adsbdb:error:* status.
C12_ProviderFailureStillEnters ==
    \A i \in DOMAIN seen :
        (/\ answers[i].adsbdb = "bad_shape"
         /\ seen[i].dist <= radius_m
         /\ ~hist[i].wasInside)
          => \E k \in 1..Len(emitted) :
                /\ emitted[k].event = "ENTER"
                /\ emitted[k].id = i
                /\ "adsbdb_status" \in DOMAIN emitted[k].meta
                /\ emitted[k].meta.adsbdb_status[2] = "error"

\* C13: every provider lookup returns a status <provider>:<class>[:detail]
\* whose class is one of skip, ok, no_match, unknown, http, error, cache,
\* disabled (then disabled:no_key), and a request that failed in transport is
\* reported as error or http, never as no_match.
C13_StatusPartition ==
    lookup.provider # "none"
      => LET st == lookup.status
             ans == asked[<<lookup.provider>> \o lookup.key].answer
         IN /\ Len(st) >= 2
            /\ st[1] = lookup.provider
            /\ st[2] \in {"skip", "ok", "no_match", "unknown", "http", "error", "cache",
                         "disabled"}
            /\ st[2] = "disabled" => st = <<lookup.provider, "disabled", "no_key">>
            /\ (lookup.net # << >> /\ ans \in {"timeout", "err"})
                 => st[2] \in {"error", "http"}

StatusKeys == {"adsbdb_status", "airlabs_status", "aviationstack_status"}

\* C14: the status of every provider the cascade attempted is in the ENTER
\* event's metadata and, with the same value, in the aircraft's record of
\* _plane_cache, from which OVERHEAD and EXIT metadata are copied.
C14_StatusRecorded ==
    \A k \in 1..Len(emitted) :
        LET e == emitted[k] IN
        e.event = "ENTER"
          => /\ "adsbdb_status" \in DOMAIN e.meta
             /\ AirlabsCalled => "airlabs_status" \in DOMAIN e.meta
             /\ AviationstackCalled => "aviationstack_status" \in DOMAIN e.meta
             /\ \A key \in StatusKeys \cap DOMAIN e.meta :
                   /\ Has(_plane_cache, e.id)
                   /\ Has(_plane_cache[e.id], key)
                   /\ _plane_cache[e.id][key] = e.meta[key]

\* C19: after a tick that completed, the ids of _inside are exactly the ids
\* that have a record in _plane_cache, _outside_polls, _last_seen_any,
\* _last_dist_m and _last_position.
C19_NoOrphanedState ==
    (ticks > 0 /\ ~Aborted)
      => \A i \in Ids :
            /\ OHas(_inside, i) <=> Has(_plane_cache, i)
            /\ OHas(_inside, i) <=> Has(_outside_polls, i)
            /\ OHas(_inside, i) <=> Has(_last_seen_any, i)
            /\ OHas(_inside, i) <=> Has(_last_dist_m, i)
            /\ OHas(_inside, i) <=> Has(_last_position, i)

\* C20: a call that reads a file holding valid JSON that is no well-formed
\* allow-list rejects it as a whole: it returns false and leaves the
\* monitored-id set and the metadata map as they were.
C20_MalformedRejectedWhole ==
    (pc = "idle" /\ ret.saw = "malformed")
      => /\ ret.value = FALSE
         /\ _space_allow = pre.allow
         /\ _space_meta = pre.meta

-----------------------------------------------------------------------------
(* Properties of the event sink *)

\* the two tracker threads emitting concurrently
InitSink ==
    /\ PlaneInit
    /\ radius_km = 2
    /\ _airlabs_enabled
    /\ _aviationstack_enabled
    /\ LookupInit
    /\ ReloadOff
    /\ SinkInit
    /\ LoopInit
    /\ FetchInit
    /\ SatOff
    /\ AirOff
NextSink == \E th \in Threads :
    \/ EmitCall(th) \/ EmitAcquire(th) \/ EmitPrintText(th) \/ EmitPrintEnd(th)
    \/ EmitWrite(th) \/ EmitWriteRaises(th)
SpecSink == InitSink /\ [][NextSink]_vars

\* the events whose console line is complete, in console order
ConsoleLines == SelectSeq(console, LAMBDA c : c.part = "nl")
EventOf(c) == [by |-> c.by, n |-> c.n]

\* C15: at most one thread is inside emit's critical section; on the console
\* the text of a line is followed by its own end-of-line before anything
\* else; the JSONL records are in the order of the console lines.
C15_EmitSerialized ==
    /\ \A a, b \in Threads :
          (emit_pc[a] \in {"print", "end", "write"} /\ emit_pc[b] \in {"print", "end", "write"})
            => a = b
    /\ \A k \in 1..Len(console) :
          /\ (console[k].part = "text" /\ k < Len(console))
               => console[k + 1] = [console[k] EXCEPT !.part = "nl"]
          /\ console[k].part = "nl"
               => k > 1 /\ console[k - 1] = [console[k] EXCEPT !.part = "text"]
    /\ \A i, j \in 1..Len(jsonl) :
          i < j => \E a, b \in 1..Len(ConsoleLines) :
                      /\ a < b
                      /\ EventOf(ConsoleLines[a]) = jsonl[i]
                      /\ EventOf(ConsoleLines[b]) = jsonl[j]
    /\ \A th \in Threads :
          emit_pc[th] = "write"
            => /\ console # << >>
               /\ console[Len(console)] = [by |-> th, n |-> sent[th], part |-> "nl"]

\* one thread is between its console line and its JSONL record while the
\* other waits for the lock, both having emitted before
C15_Witness ==
    /\ _fh
    /\ emit_pc["planes"] = "write"
    /\ emit_pc["sats"] = "acquire"
    /\ \E i, j \in 1..Len(jsonl) : jsonl[i].by = "planes" /\ jsonl[j].by = "sats"

-----------------------------------------------------------------------------
(* run_forever of both trackers, the sink failing or not *)

\* What the sink does during an iteration: it takes every event ("up"), it
\* raises on the first event of the tick and takes the next one ("once"), or
\* it raises on every event, as a log file on a full disk does ("down")
Sinks == {"up", "once", "down"}

\* Whether the tracker's own code raises in the tick
Outcomes == {"ok", "raises"}

\* The rest of an iteration whose tick ended in working state t: the WARN
\* emit of the except branch, which is inside no try, and the sleep
Iterate(t, planes, resp, tnow, sink) ==
    /\ CommitWith(t, planes, resp, tnow, IF sink = "down" THEN t.out ELSE loop_events(t))
    /\ loop' = [loop EXCEPT !["planes"] =
                 [n |-> @.n + 1, raised |-> t.raised,
                  warns |-> IF t.raised /\ sink # "down" THEN 1 ELSE 0]]
    /\ running' = [running EXCEPT !["planes"] = ~(t.raised /\ sink = "down")]

\* The providers' answers of an iteration: no match, or a JSON value that is
\* no object from ADSBDB
AnswersOf(outcome) ==
    Same([NoMatch EXCEPT !.adsbdb = IF outcome = "ok" THEN @ ELSE "bad_shape"])

\* OpenSkyPlaneTracker.run_forever, one iteration
RunPlanes == \E planes \in Feed, sink \in Sinks, outcome \in Outcomes :
    /\ running["planes"]
    /\ ticks < MaxTicks
    /\ ticks' = ticks + 1
    /\ Iterate(tick(planes, AnswersOf(outcome), now + poll_seconds,
                    IF sink = "up" THEN 0 ELSE 1),
               planes, AnswersOf(outcome), now + poll_seconds, sink)
    /\ UNCHANGED <<radius_km, _airlabs_enabled, _aviationstack_enabled>>
    /\ UNCHANGED <<lookupVars, reloadVars, sinkVars, fetchVars, satVars, airVars>>

\* SkyfieldSatelliteTracker.run_forever, one iteration.  The loop looks at
\* nothing of its tick but whether it raised, so the tick is its outcome; the
\* WARN emit of the except branch is inside no try either
RunSats == \E sink \in Sinks, outcome \in Outcomes :
    /\ running["sats"]
    /\ loop["sats"].n < MaxTicks
    /\ loop' = [loop EXCEPT !["sats"] =
                 [n |-> @.n + 1,
                  raised |-> (outcome = "raises"),
                  warns |-> IF outcome = "raises" /\ sink # "down" THEN 1 ELSE 0]]
    /\ running' = [running EXCEPT !["sats"] = ~(outcome = "raises" /\ sink = "down")]
    /\ UNCHANGED <<planeVars, lookupVars, reloadVars, sinkVars, fetchVars, satVars, airVars>>

InitLoop ==
    /\ PlaneInit
    /\ radius_km = 1
    /\ _airlabs_enabled = FALSE
    /\ _aviationstack_enabled = FALSE
    /\ LookupInit
    /\ ReloadOff
    /\ SinkOff
    /\ LoopInit
    /\ FetchInit
    /\ SatOff
    /\ AirOff

NextLoop == RunPlanes \/ RunSats
SpecLoop == InitLoop /\ [][NextLoop]_vars

\* C16: an iteration of either run_forever whose tick raised has emitted
\* exactly one WARN event, and the loop is still running afterwards.
C16_LoopSurvivesFailingTick ==
    \A th \in Threads :
        (loop[th].n > 0 /\ loop[th].raised) =>
            (loop[th].warns = 1 /\ running[th])

-----------------------------------------------------------------------------
(* The plane tracker's loop with _fetch in it *)

TokenAnswers == {"ok", "fail"}

\* What the network does during one _fetch: the answer to the first GET, the
\* token endpoint's answer to a POST, the answer to the retried GET, and the
\* Retry-After header of a 429
Scenarios ==
    { [r1 |-> r, ta |-> a, r2 |-> "200", h |-> "none"] :
          r \in Responses \ {"401", "429"}, a \in TokenAnswers }
    \cup { [r1 |-> "429", ta |-> a, r2 |-> "200", h |-> x] :
          a \in TokenAnswers, x \in RetryAfters }
    \cup { [r1 |-> "401", ta |-> a, r2 |-> r, h |-> "none"] :
          a \in TokenAnswers, r \in Responses \ {"429"} }
    \cup { [r1 |-> "401", ta |-> "ok", r2 |-> "429", h |-> x] : x \in RetryAfters }

\* Seconds from one _fetch to the next: the sleep, or a pause as long as a
\* token lives
FetchDelays == {poll_seconds, expires_in}

\* The snapshot a 200 carries
FetchedPlanes == <<[icao24 |-> "a1", callsign |-> feed_callsign(UAL1), dist |-> radius_m]>>
\* The same aircraft on the exit radius
FetchedAway == <<[icao24 |-> "a1", callsign |-> feed_callsign(UAL1), dist |-> radius_exit_m]>>
FetchedSnapshots == {FetchedPlanes, FetchedAway}

\* tick line 448: planes = self._fetch(); an exception of _fetch leaves tick
tick_fetched(f, tnow) ==
    IF f.raised THEN [Working EXCEPT !.raised = TRUE]
    ELSE tick(f.out, Same(NoMatch), tnow, 0)

\* One iteration of run_forever at time tnow, _fetch having worked as f
FetchIterate(f, tnow) ==
    /\ CommitWith(tick_fetched(f, tnow), f.out, Same(NoMatch), tnow,
                  f.warns \o loop_events(tick_fetched(f, tnow)))
    /\ _backoff_until' = f.backoff
    /\ _token' = f.token
    /\ fetched' = f @@ [n |-> fetched.n + 1, at |-> tnow,
                        backoff_before |-> _backoff_until,
                        polls_before |-> _outside_polls,
                        prev_skipped |-> fetched.skipped]

FetchTick == \E dt \in FetchDelays, sc \in Scenarios, planes \in FetchedSnapshots :
    /\ ticks < MaxTicks
    /\ fetched.n < MaxFetches
    /\ ticks' = ticks + 1
    /\ FetchIterate(_fetch(now + dt, sc.r1, sc.ta, sc.r2, sc.h, planes), now + dt)
    /\ UNCHANGED <<radius_km, _airlabs_enabled, _aviationstack_enabled>>
    /\ UNCHANGED <<lookupVars, reloadVars, sinkVars, loopVars, satVars, airVars>>

InitFetch ==
    /\ PlaneInit
    /\ radius_km = 1
    /\ _airlabs_enabled = FALSE
    /\ _aviationstack_enabled = FALSE
    /\ LookupInit
    /\ ReloadOff
    /\ SinkOff
    /\ LoopInit
    /\ FetchInit
    /\ SatOff
    /\ AirOff

NextFetch == FetchTick
SpecFetch == InitFetch /\ [][NextFetch]_vars

\* C17: a 429 puts _backoff_until at least 5 s after the fetch, at the
\* Retry-After value when that is larger and 60 s when there is none; a _fetch
\* before the deadline returns the empty list without a request; a _fetch at
\* or after the deadline issues a request.
C17_BackoffAfter429 ==
    fetched.n > 0 =>
        /\ fetched.got429 =>
              /\ _backoff_until >= fetched.at + 5
              /\ fetched.h = "120" => _backoff_until = fetched.at + 120
              /\ fetched.h = "none" => _backoff_until = fetched.at + 60
        /\ fetched.at < fetched.backoff_before =>
              /\ fetched.gets = 0 /\ fetched.posts = 0
              /\ fetched.out = << >> /\ ~fetched.raised
              /\ \A k \in 1..Len(emitted) : emitted[k].event # "WARN"
        /\ fetched.at >= fetched.backoff_before =>
              fetched.gets >= 1 \/ (fetched.posts >= 1 /\ fetched.raised)

\* a _fetch at the deadline of an earlier 429 sends a GET again, the _fetch
\* before it having been skipped
C17_Witness ==
    /\ fetched.n > 0
    /\ fetched.backoff_before > 0
    /\ fetched.at >= fetched.backoff_before
    /\ fetched.prev_skipped
    /\ fetched.gets >= 1

\* C18: a _fetch whose first answer is 401 forces at most one token refresh
\* and sends at most one more GET; when the refresh fails or the retried GET
\* is answered with a status other than 200, a WARN is emitted, the snapshot
\* is empty and the tick is not aborted.
C18_OneRefreshOneRetry ==
    (fetched.n > 0 /\ fetched.first = "401") =>
        /\ fetched.refreshes <= 1
        /\ fetched.gets <= 2
        /\ (fetched.refresh_failed \/ fetched.second \in {"401", "429", "500"}) =>
              /\ \E k \in 1..Len(emitted) :
                    emitted[k].event = "WARN" /\ emitted[k].label # Tok("loop_error")
              /\ fetched.out = << >>
              /\ ~fetched.raised
              /\ ~Aborted

\* a 401, a refresh that worked, a second 401 and the WARN for it
C18_Witness ==
    /\ fetched.n > 0
    /\ fetched.first = "401"
    /\ fetched.refreshes = 1
    /\ fetched.gets = 2
    /\ fetched.second = "401"
    /\ emitted # << >>
    /\ emitted[1].label = Tok("fetch_failed")

-----------------------------------------------------------------------------
(* The stored timestamp of the allow-list *)

\* C21: a call changes the stored mtime only when its load found complete,
\* well-formed content; after a call whose load failed the stored mtime is
\* the one before the call and differs from the file's, so that the next call
\* loads again.
C21_MtimeOnlyOnSuccess ==
    (pc = "idle" /\ ret.n > 0) =>
        /\ _space_objects_mtime # pre.mtime => ret.saw = "valid"
        /\ ret.saw \in {"unreadable", "invalid", "malformed"} =>
              /\ _space_objects_mtime = pre.mtime
              /\ file.exists => file.mtime # _space_objects_mtime

\* C22: a call that finds the allow-list file absent leaves the curated
\* monitored set empty, so that the effective set is the static list, and
\* emits no WARN; a call whose parse fails keeps the snapshot it found.
C22_AbsentFileIsEmptyList ==
    (pc = "idle" /\ ret.n > 0) =>
        /\ ret.saw \in {"absent", "vanished"} =>
              /\ _space_allow = {}
              /\ _effective_allowlist(_space_allow) = only_norad_ids
              /\ ret.event # "WARN"
        /\ ret.saw = "invalid" =>
              /\ _space_allow = pre.allow
              /\ _space_meta = pre.meta

\* C23: a call that is not forced returns true exactly when the monitored-id
\* set or the metadata map after the call differs from the one before it.
C23_ReturnsTrueIffChanged ==
    (pc = "idle" /\ ret.n > 0 /\ ~frame.force) =>
        (ret.value <=> (_space_allow # pre.allow \/ _space_meta # pre.meta))

-----------------------------------------------------------------------------
(* The satellite tracker's ticks, the allow-list saved or removed between them *)

InitSat ==
    /\ PlaneInit
    /\ radius_km = 1
    /\ _airlabs_enabled = FALSE
    /\ _aviationstack_enabled = FALSE
    /\ LookupInit
    /\ SinkOff
    /\ LoopInit
    /\ FetchInit
    /\ SatInit
    /\ AirOff

NextSat == SatTick \/ Replace \/ Delete
SpecSat == InitSat /\ [][NextSat]_vars

\* C24: after a tick that loaded the TLEs the tracked satellites are all of
\* the file if track_all is set, else those of the file in the curated
\* monitored set if that set is non-empty, else those of the file in
\* only_norad_ids; a tick whose reload reports a change loads the TLEs, unless
\* track_all is set.
C24_TrackedSet ==
    sat.n > 0 =>
        /\ (sat.loaded /\ sat.tle.ok) =>
              _sats = IF track_all THEN sat.tle.ids
                      ELSE IF _space_allow # {} THEN sat.tle.ids \cap _space_allow
                      ELSE sat.tle.ids \cap only_norad_ids
        /\ (sat.changed /\ ~track_all) => sat.loaded

\* the reload reported a change of a non-empty curated set to another one,
\* and the satellites tracked after the tick are not those of the old set
C24_Witness ==
    /\ sat.n > 1
    /\ sat.changed /\ sat.loaded /\ sat.tle.ok
    /\ ~track_all
    /\ pre.allow # {} /\ _space_allow # {}
    /\ _sats = sat.tle.ids \cap _space_allow
    /\ _sats # sat.tle.ids \cap pre.allow

-----------------------------------------------------------------------------
(* The cascade and the visit *)

\* C25: an aircraft that a tick takes into _inside gets its ENTER event, with
\* the cascade's statuses and the display string, on that tick; a tick on
\* which every aircraft seen was inside already calls no provider and emits
\* no ENTER; while the visit lasts the stored display string is the one of
\* its ENTER; an ENTER is emitted only for an aircraft that was not inside.
C25_CascadeOncePerEnter ==
    \A i \in Ids :
        /\ (~hist[i].wasInside /\ OHas(_inside, i)) =>
              \E k \in 1..Len(emitted) :
                  /\ emitted[k].event = "ENTER" /\ emitted[k].id = i
                  /\ "adsbdb_status" \in DOMAIN emitted[k].meta
                  /\ "display" \in DOMAIN emitted[k].meta
        /\ Emitted("ENTER", i) => ~hist[i].wasInside
        /\ (\A j \in DOMAIN seen : hist[j].wasInside) =>
              (calls = << >> /\ ~Emitted("ENTER", i))
        /\ (hist[i].open /\ OHas(_inside, i) /\ Has(_plane_cache, i)) =>
              /\ "display" \in DOMAIN _plane_cache[i]
              /\ _plane_cache[i].display = hist[i].display

\* Time of the last OVERHEAD event of i before the tick just made, -1 if none
OverheadBefore(i) == IF Emitted("OVERHEAD", i) THEN hist[i].ohPrev ELSE hist[i].ohLast

\* C26: a tick that finds an aircraft, not inside before, at a distance within
\* overhead_radius_m, its cooldown elapsed, emits its ENTER and after it its
\* OVERHEAD, both with the same display string.
C26_EnterThenOverhead ==
    \A i \in Ids :
        (/\ i \in DOMAIN seen
         /\ ~hist[i].wasInside
         /\ seen[i].dist <= overhead_radius_m
         /\ (OverheadBefore(i) = -1 \/ now - OverheadBefore(i) >= overhead_cooldown_seconds))
          => \E k, l \in 1..Len(emitted) :
                /\ k < l
                /\ emitted[k].event = "ENTER" /\ emitted[k].id = i
                /\ emitted[l].event = "OVERHEAD" /\ emitted[l].id = i
                /\ "display" \in DOMAIN emitted[k].meta
                /\ "display" \in DOMAIN emitted[l].meta
                /\ emitted[k].meta.display = emitted[l].meta.display

-----------------------------------------------------------------------------
(* The provider caches over a restart of the process *)

NextCache == LookupAdsbdb \/ LookupAviationstack \/ Wait \/ Restart
SpecCache == InitLookup /\ [][NextCache]_vars

\* C27: a lookup answered from the ADSBDB or the aviationstack cache comes no
\* later than the provider's TTL after the last request sent to the provider
\* for that identifier, a restart of the process in between or not.
C27_CacheWithinTtl ==
    (/\ lookup.provider \in {"adsbdb", "aviationstack"}
     /\ lookup.status = <<lookup.provider, "cache">>)
      => /\ lookup.since >= 0
         /\ lookup.at - lookup.since <= TtlOf(lookup.provider)

-----------------------------------------------------------------------------
(* Lookup keys: identifiers as the feed may spell them *)

\* The same flight written with lower case, with spaces and with a hyphen
RawIdentifiers ==
    { UAL1,
      <<"u", "a", "l", "1">>,
      <<" ", "U", "A", "L", " ", "1", " ">>,
      <<"U", "A", "L", "-", "1">> }

MaxRawLookups == 2

\* Lookups of raw identifiers, by the three providers
RawAdsbdb == lookup.n < MaxRawLookups /\ LookupAdsbdbOf(RawIdentifiers)
RawAirlabs == lookup.n < MaxRawLookups /\ LookupAirlabsOf(RawIdentifiers)
RawAviationstack == lookup.n < MaxRawLookups /\ LookupAviationstackOf(RawIdentifiers)

NextKeys == RawAdsbdb \/ RawAirlabs \/ RawAviationstack
SpecKeys == InitLookup /\ [][NextKeys]_vars

AlphaNumeric(s) == \A i \in 1..Len(s) : s[i] \in UpperLetters \cup Digits

\* C28: every identifier used as a lookup key or cache key (the ADSBDB cache
\* key and request, the AirLabs flight code, the aviationstack cache key and
\* request) is upper case with every non-alphanumeric character removed, so
\* spellings that differ only in case, whitespace or punctuation share one
\* cache entry; and normalizing a normalized identifier changes nothing.
C28_KeysAlphaNumeric ==
    /\ \A key \in DOMAIN _adsbdb_cache : AlphaNumeric(key)
    /\ \A key \in DOMAIN _MEM_CACHE : AlphaNumeric(Tail(key))
    /\ \A i \in 1..Len(calls) :
          /\ calls[i].provider \in {"adsbdb", "aviationstack"} =>
                AlphaNumeric(calls[i].key)
          /\ (calls[i].provider = "airlabs" /\ Head(calls[i].key) = "flight") =>
                AlphaNumeric(Tail(calls[i].key))
    /\ \A raw \in RawIdentifiers :
          /\ normalize_callsign(normalize_callsign(raw)) = normalize_callsign(raw)
          /\ _norm_callsign(_norm_callsign(raw)) = _norm_callsign(raw)
          /\ _normalize_callsign(_normalize_callsign(raw)) = _normalize_callsign(raw)
          /\ normalize_flight_code(normalize_flight_code(raw)) =
                normalize_flight_code(raw)

-----------------------------------------------------------------------------
(* The radii of a constructed tracker *)

\* C29: in every constructed plane tracker, whatever radius_km is configured,
\* the exit radius is the enter radius plus the hysteresis buffer and is at
\* least the enter radius, exit_confirm_polls is at least 1, and
\* overhead_radius_m is at most the enter radius.
C29_RadiiOrdered ==
    /\ radius_exit_m = radius_m + exit_buffer_m
    /\ radius_exit_m >= radius_m
    /\ exit_confirm_polls >= 1
    /\ overhead_radius_m <= radius_m

-----------------------------------------------------------------------------
(* OVERHEAD while inside *)

\* C30: a tick that observes an aircraft that is INSIDE (was inside before the
\* tick, the hysteresis buffer zone included, or is within the enter radius)
\* at a distance within overhead_radius_m, overhead_cooldown_seconds or more
\* after its last OVERHEAD, emits an OVERHEAD for it and sets its cooldown
\* clock to the tick time; an aircraft an OVERHEAD was emitted for is still
\* inside and its outside-poll counter is what the inside step left, 0.
C30_OverheadWhileInside ==
    \A i \in Ids :
        /\ (/\ i \in DOMAIN seen
            /\ hist[i].wasInside \/ seen[i].dist <= radius_m
            /\ seen[i].dist <= overhead_radius_m
            /\ (OverheadBefore(i) = -1
                  \/ now - OverheadBefore(i) >= overhead_cooldown_seconds))
             => /\ Emitted("OVERHEAD", i)
                /\ Has(_last_overhead_sent, i)
                /\ _last_overhead_sent[i] = now
        /\ Emitted("OVERHEAD", i) =>
              /\ OHas(_inside, i)
              /\ Has(_outside_polls, i)
              /\ _outside_polls[i] = 0

-----------------------------------------------------------------------------
(* The satellite tracker with an editor that tears the file or locks it   *)

NextSatTorn == SatTick \/ WritePartial \/ Protect \/ Replace
SpecSatTorn == InitSat /\ [][NextSatTorn]_vars

\* C31: a tick whose reload of the allow-list fails (the file cannot be read
\* or does not parse) keeps the curated set; the satellites tracked change
\* only if the TLEs are loaded, and then they are filtered by the old set; an
\* object overhead before the tick and still above min_elev gets no EXIT, and
\* there is an ENTER only for an object that was not overhead and is above
\* min_elev, an EXIT only for one that was overhead.
C31_FailedReloadKeepsTracking ==
    (sat.n > 0 /\ ret.saw \in {"unreadable", "invalid"}) =>
        /\ _space_allow = pre.allow
        /\ _space_meta = pre.meta
        /\ ~sat.changed
        /\ ~sat.loaded => _sats = sat.sats0
        /\ (sat.loaded /\ sat.tle.ok) => _sats = tle_filter(track_all, sat.tle.ids, pre.allow)
        /\ \A i \in sat.over0 : (i \in sat.sky /\ i \in _sats) => i \notin sat.exit
        /\ sat.enter \subseteq sat.sky \ sat.over0
        /\ sat.exit \subseteq sat.over0
        /\ ~sat.raised => _overhead = _sats \cap sat.sky

\* a torn file met by the second tick, with satellites overhead that stay so
C31_Witness ==
    /\ sat.n > 1
    /\ ret.saw = "invalid"
    /\ pre.allow # {}
    /\ sat.over0 # {}
    /\ _overhead = sat.over0
    /\ sat.enter = {} /\ sat.exit = {}
    /\ ~sat.raised

-----------------------------------------------------------------------------
(* The satellite tracker with a sink that fails *)

NextSatRaises == SatTick \/ SatTickRaises \/ Delete
SpecSatRaises == InitSat /\ [][NextSatRaises]_vars

\* C32: for every NORAD id the events of the satellite tracker alternate
\* ENTER, EXIT, ENTER, ..., ticks that raised included: an ENTER is emitted
\* only for an id above min_elev that was not overhead after the previous
\* tick and has no ENTER without an EXIT, an EXIT only for an id that was
\* overhead and has an ENTER without an EXIT.
C32_SatEventsAlternate ==
    sat.n > 0 =>
        /\ sat.enter \subseteq sat.sky \ sat.over0
        /\ sat.exit \subseteq sat.over0
        /\ sat.enter \cap sat.was = {}
        /\ sat.exit \subseteq sat.was

-----------------------------------------------------------------------------
(* The plane tracker's events over aborted ticks *)

\* C33: for every icao24 the lifecycle events alternate ENTER, EXIT, ENTER,
\* ..., ticks aborted by an exception included: an id in _inside has an ENTER
\* emitted and no EXIT since; OVERHEAD and EXIT are emitted only for an id
\* whose ENTER was emitted and not yet followed by an EXIT; a tick emits at
\* most one ENTER and one EXIT for an id, and an ENTER only for an id that was
\* not inside.
C33_PlaneEventsAlternate ==
    \A i \in Ids :
        /\ OHas(_inside, i) => hist[i].open
        /\ (Emitted("OVERHEAD", i) \/ Emitted("EXIT", i)) => hist[i].inVisit
        /\ Emitted("ENTER", i) => ~hist[i].wasInside
        /\ Len(EventsOf(emitted, "ENTER", i)) <= 1
        /\ Len(EventsOf(emitted, "EXIT", i)) <= 1

-----------------------------------------------------------------------------
(* The plane tracker when every tick completes and the feed settles: after *)
(* MaxTicks arbitrary ticks, MaxSettle ticks on which the feed is empty    *)

MaxSettle == 2

\* An empty snapshot, disappear_grace_seconds after the previous tick
Gone ==
    /\ ticks >= MaxTicks
    /\ ticks < MaxTicks + MaxSettle
    /\ ticks' = ticks + 1
    /\ Commit(tick(<< >>, Same(NoMatch), now + disappear_grace_seconds, 0),
              << >>, Same(NoMatch), now + disappear_grace_seconds)
    /\ UNCHANGED <<radius_km, _airlabs_enabled, _aviationstack_enabled>>
    /\ UNCHANGED <<lookupVars, reloadVars, sinkVars, loopVars, fetchVars, satVars, airVars>>

NextLive == Poll \/ LongPause \/ Gone
\* run_forever, while True: the loop always comes to its next tick.  Every
\* step of NextLive counts a tick, and one is possible until the last
\* settled tick is made.
NextIteration == ticks < MaxTicks + MaxSettle /\ ticks' = ticks + 1
SpecLive == Init /\ [][NextLive]_vars /\ WF_ticks(NextIteration)

\* None of the per-visit records of i is left
NoVisitState(i) ==
    /\ ~OHas(_inside, i)
    /\ ~Has(_plane_cache, i)
    /\ ~Has(_outside_polls, i)
    /\ ~Has(_last_seen_any, i)
    /\ ~Has(_last_dist_m, i)
    /\ ~Has(_last_position, i)

\* C34: while ticks keep completing and time advances, an aircraft that is
\* inside when the feed has settled, and so is in no snapshot from then on,
\* eventually gets an EXIT with reason signal_lost that leaves none of its
\* per-visit records; and an aircraft that was inside and has been reported
\* at or beyond the exit radius by exit_confirm_polls snapshots in a row gets
\* an EXIT with reason out_of_radius on the tick of the last of them.
C34_ExitEventually ==
    /\ \A i \in Ids :
          (OHas(_inside, i) /\ ticks >= MaxTicks)
            ~> (Exited(i, "signal_lost") /\ NoVisitState(i))
    /\ [](\A i \in Ids :
            (/\ hist[i].wasInside
             /\ i \in DOMAIN seen
             /\ seen[i].dist >= radius_exit_m
             /\ hist[i].run >= exit_confirm_polls)
              => (Exited(i, "out_of_radius") /\ NoVisitState(i)))

\* the feed has settled and the aircraft, inside until then, got its EXIT
\* with reason signal_lost
C34_Witness ==
    /\ ticks > MaxTicks
    /\ hist["a1"].wasInside
    /\ Exited("a1", "signal_lost")
    /\ NoVisitState("a1")

-----------------------------------------------------------------------------
(* A tick whose position fetch gave nothing *)

\* _fetch returned [] at line 346: the backoff deadline was not reached
FetchSkipped == fetched.at < fetched.backoff_before
\* _fetch returned [] at lines 355, 366, 370 or 376: the refresh failed, or
\* the last response was no 200 or no JSON
FetchFailed ==
    \/ fetched.first \in {"429", "500", "non_json"}
    \/ /\ fetched.first = "401"
       /\ fetched.refresh_failed \/ fetched.second \in {"401", "429", "500", "non_json"}

\* C35: a tick whose position fetch is skipped because of the backoff, or
\* fails (a response that is no 200 or no JSON, a failed token refresh), runs
\* on the empty snapshot: it is not aborted, emits no ENTER and no OVERHEAD,
\* leaves the outside-poll counter of every aircraft that stays inside as it
\* was, emits no EXIT with reason out_of_radius, and gives an aircraft that
\* was inside an EXIT with reason signal_lost exactly when
\* disappear_grace_seconds have passed since the last snapshot that held it.
C35_FailedFetchIsEmptySnapshot ==
    (fetched.n > 0 /\ (FetchSkipped \/ FetchFailed)) =>
        /\ fetched.out = << >>
        /\ ~Aborted
        /\ DOMAIN seen = {}
        /\ \A k \in 1..Len(emitted) : emitted[k].event \notin {"ENTER", "OVERHEAD"}
        /\ \A i \in Ids :
              /\ OHas(_inside, i) =>
                    Get(_outside_polls, i, 0) = Get(fetched.polls_before, i, 0)
              /\ ~Exited(i, "out_of_radius")
              /\ hist[i].wasInside =>
                    (Exited(i, "signal_lost")
                       <=> now - hist[i].lastSeen >= disappear_grace_seconds)

\* an aircraft that was inside, last reported one poll before the backoff
\* began, is exited as lost by a tick whose fetch the backoff skipped
C35_Witness ==
    /\ fetched.n > 0
    /\ FetchSkipped
    /\ hist["a1"].wasInside
    /\ Exited("a1", "signal_lost")
    /\ ~OHas(_inside, "a1")

-----------------------------------------------------------------------------
(* The bounding box asked of the position source.  A place is given by its  *)
(* offsets from home in metres, to the north and to the east; angles are in *)
(* 1/100000 of a degree.  Home lies where cos(lat) >= 0.1, so that the      *)
(* cosine of dlon cancels against that of the east offset.                  *)

\* haversine_m, R = 6371000.0: the metres of one degree of a great circle
MetresPerDegree == 111195

\* Angle of an arc of m metres
Degrees(m) == (m * 100000) \div MetresPerDegree

\* haversine_m for a place at these offsets: the whole metres of the distance
Sqrt(n) == CHOOSE d \in 0..5000 : d * d <= n /\ n < (d + 1) * (d + 1)
Distance(a) == Sqrt(a.north * a.north + a.east * a.east)

\* bbox_for_radius_km: dlat = radius_km / 111.0 and dlon, for a radius in metres
bbox_for_radius_km(r_m) ==
    [dlat |-> (r_m * 100) \div 111, dlon |-> (r_m * 100) \div 111]

\* __init__ lines 276-277: the box of 1.5 times the radius
_bbox_params == bbox_for_radius_km((radius_m * 3) \div 2)

\* The source returns the state vectors inside the box
InBox(a) ==
    /\ Degrees(a.north) <= _bbox_params.dlat
    /\ Degrees(a.east) <= _bbox_params.dlon

\* Where the aircraft can be: north or east of home on the enter radius, on
\* the overhead radius or on the exit radius, or north-east on the exit radius
Places ==
    { [north |-> d, east |-> 0] : d \in {radius_m, overhead_radius_m, radius_exit_m} }
    \cup { [north |-> 0, east |-> radius_exit_m],
           [north |-> (3 * radius_exit_m) \div 5, east |-> (4 * radius_exit_m) \div 5] }

\* The snapshot of an airspace holding a1 at the place a
SnapshotOf(a) ==
    IF InBox(a)
    THEN <<[icao24 |-> "a1", callsign |-> feed_callsign(UAL1), dist |-> Distance(a)]>>
    ELSE << >>

\* One iteration of run_forever with the aircraft at some place
BoxPoll == \E a \in Places :
    /\ ticks < MaxTicks
    /\ ticks' = ticks + 1
    /\ airspace' = <<a>>
    /\ Commit(tick(SnapshotOf(a), Same(NoMatch), now + poll_seconds, 0),
              SnapshotOf(a), Same(NoMatch), now + poll_seconds)
    /\ UNCHANGED <<radius_km, _airlabs_enabled, _aviationstack_enabled>>
    /\ UNCHANGED <<lookupVars, reloadVars, sinkVars, loopVars, fetchVars, satVars>>

NextBox == BoxPoll
SpecBox == Init /\ [][NextBox]_vars

\* C36: for every configured radius the box asked of the position source
\* holds every place within the exit radius, so an aircraft within the exit
\* radius is in the snapshot of the tick.
C36_BoxHoldsExitRadius ==
    \A k \in 1..Len(airspace) :
        Distance(airspace[k]) <= radius_exit_m =>
            /\ InBox(airspace[k])
            /\ "a1" \in DOMAIN seen

-----------------------------------------------------------------------------
(* ENTER of an aircraft without a callsign *)

\* C37: the ENTER of an aircraft whose feed record carries no callsign makes
\* no provider request with an identifier derived from the callsign: no
\* request to ADSBDB, whose status is a skip, none to aviationstack, and to
\* AirLabs only requests by hex.
C37_NoCallsignNoLookup ==
    \A i \in DOMAIN seen :
        (seen[i].callsign = NO_CALLSIGN /\ Emitted("ENTER", i)) =>
            /\ \A k \in 1..Len(calls) :
                  /\ calls[k].provider \notin {"adsbdb", "aviationstack"}
                  /\ calls[k].provider = "airlabs" => Head(calls[k].key) = "hex"
            /\ \A k \in 1..Len(emitted) :
                  (emitted[k].event = "ENTER" /\ emitted[k].id = i) =>
                      /\ "adsbdb_status" \in DOMAIN emitted[k].meta
                      /\ SubSeq(emitted[k].meta.adsbdb_status, 1, 2) = <<"adsbdb", "skip">>

-----------------------------------------------------------------------------
(* The label of the events of a visit *)

\* C38: every OVERHEAD event and the EXIT event of a visit carry the label of
\* the visit's ENTER event, whatever callsign later snapshots report for the
\* icao24.
C38_LabelStable ==
    \A k \in 1..Len(emitted) :
        (/\ emitted[k].event \in {"OVERHEAD", "EXIT"}
         /\ emitted[k].id \in Ids
         /\ hist[emitted[k].id].inVisit
         /\ hist[emitted[k].id].label # NoneV)
          => emitted[k].label = hist[emitted[k].id].label

-----------------------------------------------------------------------------
(* The tracker's ADSBDB cache after a failed lookup *)

\* C39: less than 6 hours after a request was sent to ADSBDB for a callsign,
\* whatever its outcome was, a lookup of the same normalized callsign is
\* answered with status adsbdb:cache and sends no request.
C39_AdsbdbOutcomeCached ==
    (/\ lookup.provider = "adsbdb"
     /\ lookup.since # -1
     /\ lookup.at - lookup.since < _adsbdb_cache_ttl_s)
      => (lookup.status = <<"adsbdb", "cache">> /\ lookup.net = << >>)

====
